---- MODULE Spec2Model ----
(***************************************************************************)
(* A model of seakcutils: the bounded lock-free channels                   *)
(* (src/channels), the region arena (src/arenas/r_arena.c) and the job     *)
(* scheduler built on them (src/job_system/jobsystem.c).                   *)
(*                                                                         *)
(* Two state machines share the module.  The channel machine (QSpec) runs  *)
(* producers and consumers against one MPSC, SPMC or MPMC channel.  The    *)
(* scheduler machine (Spec) runs a client thread and the pool's workers    *)
(* against the scheduler's globals, its job arena and its dispatch         *)
(* channel.  Each machine leaves the other's variables alone.              *)
(*                                                                         *)
(* Every thread is sequentially consistent and takes one shared-memory     *)
(* access per step unless a comment says why accesses were put together;   *)
(* the one data race of the channels (spsc_recv) is modelled by both       *)
(* orders of the two racing accesses.                                      *)
(* A busy-wait iteration that changes nothing is a stuttering step: the    *)
(* thread's action is simply not enabled until the awaited value appears.  *)
(***************************************************************************)
EXTENDS Integers, Sequences, FiniteSets, TLC

(***************************************************************************)
(* Bounds of the model.                                                    *)
(***************************************************************************)
\* largest channel capacity QInit draws
MaxCap == 2
\* send calls the producers make in all
MaxSends == 3
\* recv calls the consumers make in all (mpsc: successful ones)
MaxRecvs == 3
\* send calls and recv calls in the runs that follow the handles (HSpec)
HMaxSends == 2
HMaxRecvs == 2

\* worker threads of the pool (threadpool_init_for_scheduler's and
\* threadpool_init's num_threads)
NWorkers == 2
\* threadpool_execute calls main() makes at most
NPoolJobs == 2
\* the region arena by itself: allocating threads, the largest region_capacity
\* and max_regions r_arena_create is called with, r_arena_alloc / r_arena_add
\* calls in all, r_arena_reset calls
NAllocators == 2
RRegionCapacity == 2
RMaxRegions == 3
RMaxCalls == 4
RMaxResets == 1
\* the flat arena: starting capacities 0 .. AMaxCap, calls in a run, values
AMaxCap == 3
AMaxOps == 5
AMaxVal == 2
\* the wait group: largest initial value, wg_add calls, largest amount added
WMaxInitial == 2
WMaxAdds == 3
WMaxAmount == 2

\* the fixed stack: largest cap, calls in a run
SMaxCap == 3
SMaxOps == 6
\* jobs of the job_chain_arr client and of the job_then client
NChain == 3
NBench == 3

\* jobsystem.h, scaled down so that an arena epoch fits in the model: the
\* source has 4096 jobs per region, 1024 regions and a margin of 20
JOB_SCHEDULER_REGION_CAPACITY == 2
JOB_SCHEDULER_MAX_REGIONS == 2
JOB_SCHEDULER_MAX_JOBS ==
  JOB_SCHEDULER_REGION_CAPACITY * JOB_SCHEDULER_MAX_REGIONS
HealthMargin == 3

\* size_t arithmetic is modular.  The model keeps the wrap-around and scales
\* the width from 64 to 16 bits; every count of the model stays far below it.
SizeMod == 2 ^ 16
SizeMax == SizeMod - 1

SizeAdd(x, n) == (x + n) % SizeMod
SizeSub(x, n) == (x - n + SizeMod) % SizeMod

NULL == "NULL"

(***************************************************************************)
(* channels.h: return codes and channel states.                            *)
(***************************************************************************)
CHANNEL_OK == "CHANNEL_OK"
CHANNEL_ERR_CLOSED == "CHANNEL_ERR_CLOSED"
CHANNEL_ERR_EMPTY == "CHANNEL_ERR_EMPTY"
CHANNEL_ERR_FULL == "CHANNEL_ERR_FULL"
OPEN == "OPEN"
CLOSED == "CLOSED"

(***************************************************************************)
(* The ring of slots, shared by mpsc.c, spmc.c and mpmc.h.  A channel is   *)
(* the record                                                              *)
(*   [capacity, seq : slot -> size_t, data : slot -> element,              *)
(*    head, tail, state]                                                   *)
(* where data[i] = NULL stands for the (uninitialised) bytes malloc gave.  *)
(* spsc.c has the same ring without the sequence numbers, which stay as    *)
(* created there.                                                          *)
(***************************************************************************)
channel_create(capacity) ==
  [ capacity |-> capacity,
    seq      |-> [i \in 0 .. capacity - 1 |-> i],
    data     |-> [i \in 0 .. capacity - 1 |-> NULL],
    head     |-> 0,
    tail     |-> 0,
    state    |-> OPEN ]

SlotOf(ch, pos) == pos % ch.capacity

\* the producer's loop test: while (load(&slot->seq) != head) spin
SendSeqReady(seqv, head) == seqv = head

\* a consumer that takes the slot as soon as the producer may write it
RecvSeqReady_OffByOne(seqv, tail) == seqv = tail

\* the consumer's loop test: while (load(&slot->seq) != tail + 1) spin
RecvSeqReady(seqv, tail) == seqv = SizeAdd(tail, 1)

\* atomic_fetch_add(sender->head, 1)
ClaimHead(ch) == [ch EXCEPT !.head = SizeAdd(ch.head, 1)]

\* atomic_fetch_add(receiver->tail, 1)
ClaimTail(ch) == [ch EXCEPT !.tail = SizeAdd(ch.tail, 1)]

\* memcpy(slot->data, element, elem_size)
SendCopy(ch, head, element) == [ch EXCEPT !.data[SlotOf(ch, head)] = element]

\* atomic_store(&slot->seq, head + 1)
SendPublish(ch, head) == [ch EXCEPT !.seq[SlotOf(ch, head)] = SizeAdd(head, 1)]

\* atomic_store(&slot->seq, tail + inner_c_cap)
RecvRearm(ch, tail) ==
  [ch EXCEPT !.seq[SlotOf(ch, tail)] = SizeAdd(tail, ch.capacity)]

\* atomic_store(&chan->state, CLOSED)
CloseChannel(ch) == [ch EXCEPT !.state = CLOSED]

\* a send that never looks at the channel state on entry
SendRefused_Never(state) == FALSE

\* send's test on entry: if (state == CLOSED) return CHANNEL_ERR_CLOSED
SendRefused(state) == state = CLOSED

\* a busy-wait loop that never looks at the channel state
LoopSeesClosed_Never(state) == FALSE

\* the test inside the busy-wait loops: if (load(chan_state) == CLOSED)
LoopSeesClosed(state) == state = CLOSED


(***************************************************************************)
(* State.                                                                  *)
(*                                                                         *)
(* chan      the channel (in Spec: the pool's dispatch channel, whose      *)
(*           elements are job-handle pointers)                             *)
(*                                                                         *)
(* The channel machine:                                                    *)
(* q_kind    which implementation the channel machine runs                 *)
(* q_pc      per channel thread, its place in send / recv                  *)
(* q_pos     per channel thread, the position it claimed (local `head` /   *)
(*           `tail`)                                                       *)
(* q_elem    per producer, the element being sent; per consumer, `out`     *)
(* q_ret     per channel thread, the status its last call returned         *)
(* q_nsend   send calls begun, q_nrecv recv calls begun                    *)
(* q_sent    history: <<position, element>> of every send that returned    *)
(*           CHANNEL_OK                                                    *)
(* q_rcvd    history: <<position, element, consumer>> of every recv that   *)
(*           returned CHANNEL_OK                                           *)
(*                                                                         *)
(* The scheduler machine:                                                  *)
(* sched     g_scheduler: accepting_jobs, active_jobs, jobs_completed_epoch*)
(* arena     g_scheduler->job_arena: count, current_epoch, rgs_in_use and  *)
(*           each region's epoch stamp (NULL: region not created)          *)
(* cells     the arena's memory read as JobHandle records, by logical      *)
(*           index: Job, unfinished, continuation                          *)
(* hnd       the channel's handles: the counters prod_cont and cons_cont,  *)
(*           per thread the state of the sender / receiver it was given,   *)
(*           and the owner's position in destroy                           *)
(* wk        per worker: pc, and the locals job, cont, pos                 *)
(* prog      which client program main() runs                              *)
(* cl        the client thread: pc, the handles it holds (jobs), its       *)
(*           place in the program, and the locals of the call it is in     *)
(* aborted   NULL, or why the process died (abort(), a failed assert)      *)
(* hist      history, per job_spawn call (its number is the `sid` carried  *)
(*           by the pointers to its handle): the arena epoch at its        *)
(*           allocation, whether it was submitted, how often its function  *)
(*           was invoked and returned, how often active_jobs was           *)
(*           decremented for it                                            *)
(***************************************************************************)
VARIABLES chan, hnd, q_kind, q_pc, q_pos, q_elem, q_ret, q_nsend, q_nrecv,
          q_sent, q_rcvd,
          sched, arena, cells, wk, prog, cl, aborted, hist

qonly == <<hnd, q_kind, q_pc, q_pos, q_elem, q_ret, q_nsend, q_nrecv, q_sent, q_rcvd>>
sonly == <<sched, arena, cells, wk, prog, cl, aborted, hist>>
qvars == <<chan, qonly>>
vars == <<chan, qonly, sonly>>

QKinds == {"spsc", "mpsc", "spmc", "mpmc"}

\* the threads of the channel machine: the single-producer and
\* single-consumer variants are used by one thread on that side
Producers(kind) == IF kind \in {"spsc", "spmc"} THEN {"p1"} ELSE {"p1", "p2"}
Consumers(kind) == IF kind \in {"spsc", "mpsc"} THEN {"c1"} ELSE {"c1", "c2"}
QThreads == {"p1", "p2", "c1", "c2"}

(***************************************************************************)
(* Sender and receiver handles.  mpsc.c counts its senders, spmc.c its     *)
(* receivers, mpmc.h both; only a counted handle has a state of its own.   *)
(* A handle that is not counted is recorded here as OPEN from the moment   *)
(* it is obtained and never changes.                                       *)
(***************************************************************************)
TracksProd(kind) == kind \in {"mpsc", "mpmc"}
TracksCons(kind) == kind \in {"spmc", "mpmc"}

\* a channel nobody has attached to
NoHandles ==
  [prod_cont |-> 0, cons_cont |-> 0,
   sender |-> [t \in QThreads |-> NULL],
   receiver |-> [t \in QThreads |-> NULL],
   dpc |-> "idle", d_cons |-> 0, freed |-> FALSE]

\* sender->sender_state = OPEN; atomic_fetch_add(&chan->prod_cont, 1)
get_sender(h, kind, p) ==
  [h EXCEPT !.sender[p] = OPEN,
            !.prod_cont = IF TracksProd(kind) THEN SizeAdd(@, 1) ELSE @]

\* receiver->receiver_state = OPEN; atomic_fetch_add(&chan->cons_cont, 1)
get_receiver(h, kind, c) ==
  [h EXCEPT !.receiver[c] = OPEN,
            !.cons_cont = IF TracksCons(kind) THEN SizeAdd(@, 1) ELSE @]

RECURSIVE GetSenders(_, _, _)
GetSenders(h, kind, ps) ==
  IF ps = {} THEN h
  ELSE LET p == CHOOSE x \in ps : TRUE
       IN  GetSenders(get_sender(h, kind, p), kind, ps \ {p})

RECURSIVE GetReceivers(_, _, _)
GetReceivers(h, kind, cs) ==
  IF cs = {} THEN h
  ELSE LET c == CHOOSE x \in cs : TRUE
       IN  GetReceivers(get_receiver(h, kind, c), kind, cs \ {c})

\* every thread of the channel machine has been given its handle
HandlesAttached(kind) ==
  GetReceivers(GetSenders(NoHandles, kind, Producers(kind)), kind,
               Consumers(kind))

\* a close_receiver that leaves the counter alone
close_receiver_count_Skip(h) == h

\* atomic_fetch_sub(receiver->chan_cons_count, 1)
close_receiver_count(h) == [h EXCEPT !.cons_cont = SizeSub(@, 1)]

\* atomic_store(&receiver->receiver_state, CLOSED)
close_receiver_mark(h, c) == [h EXCEPT !.receiver[c] = CLOSED]

\* atomic_fetch_sub(sender->chan_prod_count, 1)
close_sender_count(h) == [h EXCEPT !.prod_cont = SizeSub(@, 1)]

\* atomic_store(&sender->sender_state, CLOSED)
close_sender_mark(h, p) == [h EXCEPT !.sender[p] = CLOSED]

\* a recv that never looks at the handle's state
RecvRefused_Never(state) == FALSE

\* the entry test of mpmc_recv / spmc_recv:
\* if (load(&receiver->receiver_state) == CLOSED) return ERR_CLOSED
RecvRefused(state) == state = CLOSED

\* the channel threads at rest, as the scheduler machine leaves them
ChannelThreadsParked ==
  /\ hnd = NoHandles
  /\ q_pc = [t \in QThreads |-> "idle"]
  /\ q_pos = [t \in QThreads |-> 0]
  /\ q_elem = [t \in QThreads |-> NULL]
  /\ q_ret = [t \in QThreads |-> NULL]
  /\ q_nsend = 0
  /\ q_nrecv = 0
  /\ q_sent = {}
  /\ q_rcvd = {}

\* no scheduler: the channel machine leaves these variables alone
SchedulerParked ==
  /\ sched = NULL /\ arena = NULL /\ cells = NULL /\ wk = NULL
  /\ prog = NULL /\ cl = NULL /\ aborted = NULL /\ hist = NULL

QInit ==
  /\ q_kind \in QKinds
  /\ hnd = HandlesAttached(q_kind)
  /\ \E capacity \in 1 .. MaxCap : chan = channel_create(capacity)
  /\ q_pc = [t \in QThreads |-> "idle"]
  /\ q_pos = [t \in QThreads |-> 0]
  /\ q_elem = [t \in QThreads |-> NULL]
  /\ q_ret = [t \in QThreads |-> NULL]
  /\ q_nsend = 0
  /\ q_nrecv = 0
  /\ q_sent = {}
  /\ q_rcvd = {}
  /\ SchedulerParked

(***************************************************************************)
(* mpsc_send / spmc_send / mpmc_send: the three are the same code.         *)
(*                                                                         *)
(* One iteration of the busy-wait loop loads the slot's sequence and, when *)
(* it is not the awaited one, the channel state.  The two loads are one    *)
(* step here: the thread writes nothing between them, so a run in which    *)
(* another thread acts between the two loads reaches the same states as    *)
(* the run in which it acts after both.  memcpy follows the passing test   *)
(* in the same step for the same reason; the thread then stands before     *)
(* the store that publishes the slot.                                      *)
(***************************************************************************)
\* state = load(sender->chan_state); if (state == CLOSED) return ERR_CLOSED
\* (spsc_try_send begins with the same test)
SendEnterClosed(p) ==
  /\ hnd.sender[p] # NULL
  /\ q_pc[p] = "idle" /\ q_nsend < MaxSends
  /\ SendRefused(chan.state)
  /\ q_nsend' = q_nsend + 1
  /\ q_ret' = [q_ret EXCEPT ![p] = CHANNEL_ERR_CLOSED]
  /\ UNCHANGED <<chan, q_kind, q_pc, q_pos, q_elem, q_nrecv, q_sent, q_rcvd,
                 hnd, sonly>>

SendEnterOpen(p) ==
  /\ q_kind # "spsc"
  /\ hnd.sender[p] # NULL
  /\ q_pc[p] = "idle" /\ q_nsend < MaxSends
  /\ ~SendRefused(chan.state)
  /\ q_nsend' = q_nsend + 1
  /\ q_elem' = [q_elem EXCEPT ![p] = <<p, q_nsend + 1>>]
  /\ q_ret' = [q_ret EXCEPT ![p] = NULL]
  /\ q_pc' = [q_pc EXCEPT ![p] = "claim"]
  /\ UNCHANGED <<chan, q_kind, q_pos, q_nrecv, q_sent, q_rcvd, hnd, sonly>>

\* head = atomic_fetch_add(sender->head, 1)
SendClaim(p) ==
  /\ q_pc[p] = "claim"
  /\ q_pos' = [q_pos EXCEPT ![p] = chan.head]
  /\ chan' = ClaimHead(chan)
  /\ q_pc' = [q_pc EXCEPT ![p] = "spin"]
  /\ UNCHANGED <<q_kind, q_elem, q_ret, q_nsend, q_nrecv, q_sent, q_rcvd,
                 hnd, sonly>>

\* the loop test fails and the loop body sees CLOSED: return ERR_CLOSED
SendSpinClosed(p) ==
  /\ q_pc[p] = "spin"
  /\ ~SendSeqReady(chan.seq[SlotOf(chan, q_pos[p])], q_pos[p])
  /\ LoopSeesClosed(chan.state)
  /\ q_pc' = [q_pc EXCEPT ![p] = "idle"]
  /\ q_ret' = [q_ret EXCEPT ![p] = CHANNEL_ERR_CLOSED]
  /\ UNCHANGED <<chan, q_kind, q_pos, q_elem, q_nsend, q_nrecv, q_sent,
                 q_rcvd, hnd, sonly>>

\* the loop test passes; memcpy(slot->data, element, elem_size)
SendWrite(p) ==
  /\ q_pc[p] = "spin"
  /\ SendSeqReady(chan.seq[SlotOf(chan, q_pos[p])], q_pos[p])
  /\ chan' = SendCopy(chan, q_pos[p], q_elem[p])
  /\ q_pc' = [q_pc EXCEPT ![p] = "publish"]
  /\ UNCHANGED <<q_kind, q_pos, q_elem, q_ret, q_nsend, q_nrecv, q_sent,
                 q_rcvd, hnd, sonly>>

\* atomic_store(&slot->seq, head + 1); return CHANNEL_OK
SendDone(p) ==
  /\ q_pc[p] = "publish"
  /\ chan' = SendPublish(chan, q_pos[p])
  /\ q_pc' = [q_pc EXCEPT ![p] = "idle"]
  /\ q_ret' = [q_ret EXCEPT ![p] = CHANNEL_OK]
  /\ q_sent' = q_sent \cup {<<q_pos[p], q_elem[p]>>}
  /\ UNCHANGED <<q_kind, q_pos, q_elem, q_nsend, q_nrecv, q_rcvd, hnd, sonly>>

Send(p) ==
  \/ SendEnterClosed(p) \/ SendEnterOpen(p) \/ SendClaim(p)
  \/ SendSpinClosed(p) \/ SendWrite(p) \/ SendDone(p)

(***************************************************************************)
(* spmc_recv / mpmc_recv: the two are the same code.  The receiver handle  *)
(* is open throughout, so the receiver_state test at entry passes.  The    *)
(* loop is one step per iteration, as in send.                             *)
(***************************************************************************)
\* if (load(&receiver->receiver_state) == CLOSED) return ERR_CLOSED
RecvEnterClosed(c) ==
  /\ q_kind \in {"spmc", "mpmc"}
  /\ hnd.receiver[c] # NULL
  /\ q_pc[c] = "idle" /\ q_nrecv < MaxRecvs
  /\ RecvRefused(hnd.receiver[c])
  /\ q_nrecv' = q_nrecv + 1
  /\ q_ret' = [q_ret EXCEPT ![c] = CHANNEL_ERR_CLOSED]
  /\ UNCHANGED <<chan, q_kind, q_pc, q_pos, q_elem, q_nsend, q_sent, q_rcvd,
                 hnd, sonly>>

\* the handle is open: tail = atomic_fetch_add(receiver->tail, 1)
RecvClaim(c) ==
  /\ q_kind \in {"spmc", "mpmc"}
  /\ hnd.receiver[c] # NULL
  /\ q_pc[c] = "idle" /\ q_nrecv < MaxRecvs
  /\ ~RecvRefused(hnd.receiver[c])
  /\ q_nrecv' = q_nrecv + 1
  /\ q_pos' = [q_pos EXCEPT ![c] = chan.tail]
  /\ chan' = ClaimTail(chan)
  /\ q_ret' = [q_ret EXCEPT ![c] = NULL]
  /\ q_pc' = [q_pc EXCEPT ![c] = "spin"]
  /\ UNCHANGED <<q_kind, q_elem, q_nsend, q_sent, q_rcvd, hnd, sonly>>

\* the loop test fails and the loop body sees CLOSED: return ERR_CLOSED
RecvSpinClosed(c) ==
  /\ q_pc[c] = "spin"
  /\ ~RecvSeqReady(chan.seq[SlotOf(chan, q_pos[c])], q_pos[c])
  /\ LoopSeesClosed(chan.state)
  /\ q_pc' = [q_pc EXCEPT ![c] = "idle"]
  /\ q_ret' = [q_ret EXCEPT ![c] = CHANNEL_ERR_CLOSED]
  /\ UNCHANGED <<chan, q_kind, q_pos, q_elem, q_nsend, q_nrecv, q_sent,
                 q_rcvd, hnd, sonly>>

\* the loop test passes; memcpy(out, slot->data, elem_size)
RecvRead(c) ==
  /\ q_pc[c] = "spin"
  /\ RecvSeqReady(chan.seq[SlotOf(chan, q_pos[c])], q_pos[c])
  /\ q_elem' = [q_elem EXCEPT ![c] = chan.data[SlotOf(chan, q_pos[c])]]
  /\ q_pc' = [q_pc EXCEPT ![c] = "rearm"]
  /\ UNCHANGED <<chan, q_kind, q_pos, q_ret, q_nsend, q_nrecv, q_sent,
                 q_rcvd, hnd, sonly>>

\* atomic_store(&slot->seq, tail + inner_c_cap); return CHANNEL_OK
RecvDone(c) ==
  /\ q_pc[c] = "rearm"
  /\ chan' = RecvRearm(chan, q_pos[c])
  /\ q_pc' = [q_pc EXCEPT ![c] = "idle"]
  /\ q_ret' = [q_ret EXCEPT ![c] = CHANNEL_OK]
  /\ q_rcvd' = q_rcvd \cup {<<q_pos[c], q_elem[c], c>>}
  /\ UNCHANGED <<q_kind, q_pos, q_elem, q_nsend, q_nrecv, q_sent, hnd, sonly>>

Recv(c) ==
  \/ RecvEnterClosed(c) \/ RecvClaim(c) \/ RecvSpinClosed(c) \/ RecvRead(c) \/ RecvDone(c)

(***************************************************************************)
(* mpsc_recv: the single consumer never blocks.  Only the consumer reads   *)
(* or writes tail, so the closing fetch_add of tail shares the step of the *)
(* sequence store before it.                                               *)
(***************************************************************************)
\* tail = load(tail); head = load(head); if (tail == head) return ERR_EMPTY
MpscRecvEmpty(c) ==
  /\ q_kind = "mpsc"
  /\ hnd.receiver[c] # NULL
  /\ q_pc[c] = "idle" /\ q_nrecv < MaxRecvs
  /\ chan.tail = chan.head
  /\ q_ret' = [q_ret EXCEPT ![c] = CHANNEL_ERR_EMPTY]
  /\ UNCHANGED <<chan, q_kind, q_pc, q_pos, q_elem, q_nsend, q_nrecv, q_sent,
                 q_rcvd, hnd, sonly>>

MpscRecvEnter(c) ==
  /\ q_kind = "mpsc"
  /\ hnd.receiver[c] # NULL
  /\ q_pc[c] = "idle" /\ q_nrecv < MaxRecvs
  /\ chan.tail # chan.head
  /\ q_pos' = [q_pos EXCEPT ![c] = chan.tail]
  /\ q_ret' = [q_ret EXCEPT ![c] = NULL]
  /\ q_pc' = [q_pc EXCEPT ![c] = "mpsc_seq"]
  /\ UNCHANGED <<chan, q_kind, q_elem, q_nsend, q_nrecv, q_sent, q_rcvd, hnd, sonly>>

\* if (load(&slot->seq) != tail + 1) return ERR_EMPTY
MpscRecvUnpublished(c) ==
  /\ q_pc[c] = "mpsc_seq"
  /\ ~RecvSeqReady(chan.seq[SlotOf(chan, q_pos[c])], q_pos[c])
  /\ q_pc' = [q_pc EXCEPT ![c] = "idle"]
  /\ q_ret' = [q_ret EXCEPT ![c] = CHANNEL_ERR_EMPTY]
  /\ UNCHANGED <<chan, q_kind, q_pos, q_elem, q_nsend, q_nrecv, q_sent,
                 q_rcvd, hnd, sonly>>

\* the test passes; memcpy(out, slot->data, elem_size)
MpscRecvRead(c) ==
  /\ q_pc[c] = "mpsc_seq"
  /\ RecvSeqReady(chan.seq[SlotOf(chan, q_pos[c])], q_pos[c])
  /\ q_elem' = [q_elem EXCEPT ![c] = chan.data[SlotOf(chan, q_pos[c])]]
  /\ q_pc' = [q_pc EXCEPT ![c] = "mpsc_rearm"]
  /\ UNCHANGED <<chan, q_kind, q_pos, q_ret, q_nsend, q_nrecv, q_sent,
                 q_rcvd, hnd, sonly>>

\* atomic_store(&slot->seq, tail + inner_c_cap);
\* atomic_fetch_add(receiver->tail, 1); return CHANNEL_OK
MpscRecvDone(c) ==
  /\ q_pc[c] = "mpsc_rearm"
  /\ chan' = ClaimTail(RecvRearm(chan, q_pos[c]))
  /\ q_pc' = [q_pc EXCEPT ![c] = "idle"]
  /\ q_nrecv' = q_nrecv + 1
  /\ q_ret' = [q_ret EXCEPT ![c] = CHANNEL_OK]
  /\ q_rcvd' = q_rcvd \cup {<<q_pos[c], q_elem[c], c>>}
  /\ UNCHANGED <<q_kind, q_pos, q_elem, q_nsend, q_sent, hnd, sonly>>

MpscRecv(c) ==
  \/ MpscRecvEmpty(c) \/ MpscRecvEnter(c) \/ MpscRecvUnpublished(c)
  \/ MpscRecvRead(c) \/ MpscRecvDone(c)

(***************************************************************************)
(* spsc_try_send and spsc_recv.  Neither has a loop.  The producer is the  *)
(* only writer of head and the consumer the only writer of tail, so each   *)
(* reads its own cursor in the step in which it loads the other one.       *)
(***************************************************************************)
\* the test of spsc_try_send: if (head - tail == inner_c_cap) return ERR_FULL
SpscFull(ch, head, tail) == SizeSub(head, tail) = ch.capacity

\* a consumer that takes a slot whenever the ring holds claimed positions
SpscEmpty_Never(head, tail) == FALSE

\* the test of spsc_recv: if (tail == head) return ERR_EMPTY
SpscEmpty(head, tail) == tail = head

\* state = load(chan_state): OPEN
SpscSendEnter(p) ==
  /\ q_kind = "spsc"
  /\ q_pc[p] = "idle" /\ q_nsend < MaxSends
  /\ ~SendRefused(chan.state)
  /\ q_nsend' = q_nsend + 1
  /\ q_elem' = [q_elem EXCEPT ![p] = <<p, q_nsend + 1>>]
  /\ q_ret' = [q_ret EXCEPT ![p] = NULL]
  /\ q_pc' = [q_pc EXCEPT ![p] = "spsc_load"]
  /\ UNCHANGED <<chan, q_kind, q_pos, q_nrecv, q_sent, q_rcvd, hnd, sonly>>

\* head = load(head); tail = load(tail); full: return CHANNEL_ERR_FULL
SpscSendFull(p) ==
  /\ q_pc[p] = "spsc_load"
  /\ SpscFull(chan, chan.head, chan.tail)
  /\ q_pc' = [q_pc EXCEPT ![p] = "idle"]
  /\ q_ret' = [q_ret EXCEPT ![p] = CHANNEL_ERR_FULL]
  /\ UNCHANGED <<chan, q_kind, q_pos, q_elem, q_nsend, q_nrecv, q_sent,
                 q_rcvd, hnd, sonly>>

\* head = load(head); tail = load(tail); not full
SpscSendLoad(p) ==
  /\ q_pc[p] = "spsc_load"
  /\ ~SpscFull(chan, chan.head, chan.tail)
  /\ q_pos' = [q_pos EXCEPT ![p] = chan.head]
  /\ q_pc' = [q_pc EXCEPT ![p] = "spsc_copy"]
  /\ UNCHANGED <<chan, q_kind, q_elem, q_ret, q_nsend, q_nrecv, q_sent,
                 q_rcvd, hnd, sonly>>

\* memcpy(buffer + index * elem_size, element, elem_size)
SpscSendWrite(p) ==
  /\ q_pc[p] = "spsc_copy"
  /\ chan' = SendCopy(chan, q_pos[p], q_elem[p])
  /\ q_pc' = [q_pc EXCEPT ![p] = "spsc_pub"]
  /\ UNCHANGED <<q_kind, q_pos, q_elem, q_ret, q_nsend, q_nrecv, q_sent,
                 q_rcvd, hnd, sonly>>

\* atomic_fetch_add(head, 1, release); return CHANNEL_OK
SpscSendDone(p) ==
  /\ q_pc[p] = "spsc_pub"
  /\ chan' = ClaimHead(chan)
  /\ q_pc' = [q_pc EXCEPT ![p] = "idle"]
  /\ q_ret' = [q_ret EXCEPT ![p] = CHANNEL_OK]
  /\ q_sent' = q_sent \cup {<<q_pos[p], q_elem[p]>>}
  /\ UNCHANGED <<q_kind, q_pos, q_elem, q_nsend, q_nrecv, q_rcvd, hnd, sonly>>

\* tail = load(tail); head = load(head); empty: return CHANNEL_ERR_EMPTY
SpscRecvEmpty(c) ==
  /\ q_kind = "spsc"
  /\ q_pc[c] = "idle" /\ q_nrecv < MaxRecvs
  /\ SpscEmpty(chan.head, chan.tail)
  /\ q_ret' = [q_ret EXCEPT ![c] = CHANNEL_ERR_EMPTY]
  /\ UNCHANGED <<chan, q_kind, q_pc, q_pos, q_elem, q_nsend, q_nrecv, q_sent,
                 q_rcvd, hnd, sonly>>

\* tail = load(tail); head = load(head); not empty
SpscRecvLoad(c) ==
  /\ q_kind = "spsc"
  /\ q_pc[c] = "idle" /\ q_nrecv < MaxRecvs
  /\ ~SpscEmpty(chan.head, chan.tail)
  /\ q_nrecv' = q_nrecv + 1
  /\ q_pos' = [q_pos EXCEPT ![c] = chan.tail]
  /\ q_ret' = [q_ret EXCEPT ![c] = NULL]
  /\ q_pc' = [q_pc EXCEPT ![c] = "spsc_read"]
  /\ UNCHANGED <<chan, q_kind, q_elem, q_nsend, q_sent, q_rcvd, hnd, sonly>>

\* memcpy(out, buffer + index * elem_size, elem_size), in program order
SpscRecvRead(c) ==
  /\ q_pc[c] = "spsc_read"
  /\ q_elem' = [q_elem EXCEPT ![c] = chan.data[SlotOf(chan, q_pos[c])]]
  /\ q_pc' = [q_pc EXCEPT ![c] = "spsc_adv"]
  /\ UNCHANGED <<chan, q_kind, q_pos, q_ret, q_nsend, q_nrecv, q_sent,
                 q_rcvd, hnd, sonly>>

\* atomic_fetch_add(tail, 1, relaxed); return CHANNEL_OK
SpscRecvDone(c) ==
  /\ q_pc[c] = "spsc_adv"
  /\ chan' = ClaimTail(chan)
  /\ q_pc' = [q_pc EXCEPT ![c] = "idle"]
  /\ q_ret' = [q_ret EXCEPT ![c] = CHANNEL_OK]
  /\ q_rcvd' = q_rcvd \cup {<<q_pos[c], q_elem[c], c>>}
  /\ UNCHANGED <<q_kind, q_pos, q_elem, q_nsend, q_nrecv, q_sent, hnd, sonly>>

(***************************************************************************)
(* The increment of tail is memory_order_relaxed, so nothing orders the    *)
(* memcpy before it: the producer's acquire load of tail does not          *)
(* synchronise with it, and the consumer's read of the slot races with the *)
(* producer's next write to the slot.  The other outcome of the race: the  *)
(* increment becomes visible first and the slot is read afterwards.        *)
(***************************************************************************)
SpscRecvAdvanceEarly(c) ==
  /\ q_pc[c] = "spsc_read"
  /\ chan' = ClaimTail(chan)
  /\ q_pc' = [q_pc EXCEPT ![c] = "spsc_late"]
  /\ UNCHANGED <<q_kind, q_pos, q_elem, q_ret, q_nsend, q_nrecv, q_sent,
                 q_rcvd, hnd, sonly>>

SpscRecvLateRead(c) ==
  /\ q_pc[c] = "spsc_late"
  /\ q_elem' = [q_elem EXCEPT ![c] = chan.data[SlotOf(chan, q_pos[c])]]
  /\ q_pc' = [q_pc EXCEPT ![c] = "idle"]
  /\ q_ret' = [q_ret EXCEPT ![c] = CHANNEL_OK]
  /\ q_rcvd' = q_rcvd \cup {<<q_pos[c], chan.data[SlotOf(chan, q_pos[c])], c>>}
  /\ UNCHANGED <<chan, q_kind, q_pos, q_nsend, q_nrecv, q_sent, hnd, sonly>>

SpscSend(p) ==
  \/ SpscSendEnter(p) \/ SpscSendFull(p) \/ SpscSendLoad(p)
  \/ SpscSendWrite(p) \/ SpscSendDone(p)

SpscRecv(c) ==
  \/ SpscRecvEmpty(c) \/ SpscRecvLoad(c) \/ SpscRecvRead(c)
  \/ SpscRecvDone(c) \/ SpscRecvAdvanceEarly(c) \/ SpscRecvLateRead(c)

(***************************************************************************)
(* spsc_close / mpsc_close / spmc_close / mpmc_close, by the owner.        *)
(***************************************************************************)
Close ==
  /\ chan.state = OPEN
  /\ chan' = CloseChannel(chan)
  /\ UNCHANGED <<q_kind, q_pc, q_pos, q_elem, q_ret, q_nsend, q_nrecv,
                 q_sent, q_rcvd, hnd, sonly>>

QNext ==
  \/ \E p \in Producers(q_kind) : SendEnterClosed(p)
  \/ \E p \in Producers(q_kind) : SendEnterOpen(p)
  \/ \E p \in Producers(q_kind) : SendClaim(p)
  \/ \E p \in Producers(q_kind) : SendSpinClosed(p)
  \/ \E p \in Producers(q_kind) : SendWrite(p)
  \/ \E p \in Producers(q_kind) : SendDone(p)
  \/ \E c \in Consumers(q_kind) : RecvClaim(c)
  \/ \E c \in Consumers(q_kind) : RecvSpinClosed(c)
  \/ \E c \in Consumers(q_kind) : RecvRead(c)
  \/ \E c \in Consumers(q_kind) : RecvDone(c)
  \/ \E c \in Consumers(q_kind) : MpscRecvEmpty(c)
  \/ \E c \in Consumers(q_kind) : MpscRecvEnter(c)
  \/ \E c \in Consumers(q_kind) : MpscRecvUnpublished(c)
  \/ \E c \in Consumers(q_kind) : MpscRecvRead(c)
  \/ \E c \in Consumers(q_kind) : MpscRecvDone(c)
  \/ \E p \in Producers(q_kind) : SpscSendEnter(p)
  \/ \E p \in Producers(q_kind) : SpscSendFull(p)
  \/ \E p \in Producers(q_kind) : SpscSendLoad(p)
  \/ \E p \in Producers(q_kind) : SpscSendWrite(p)
  \/ \E p \in Producers(q_kind) : SpscSendDone(p)
  \/ \E c \in Consumers(q_kind) : SpscRecvEmpty(c)
  \/ \E c \in Consumers(q_kind) : SpscRecvLoad(c)
  \/ \E c \in Consumers(q_kind) : SpscRecvRead(c)
  \/ \E c \in Consumers(q_kind) : SpscRecvDone(c)
  \/ \E c \in Consumers(q_kind) : SpscRecvAdvanceEarly(c)
  \/ \E c \in Consumers(q_kind) : SpscRecvLateRead(c)
  \/ Close

QSpec == QInit /\ [][QNext]_vars

(***************************************************************************)
(* The life of the handles of a counted channel (mpsc, spmc, mpmc).  The   *)
(* owner attaches the handles and hands each to its thread; a thread       *)
(* closes its handle between two calls, once ("must be called once per     *)
(* sender"); the owner destroys the channel and attaches nothing after     *)
(* that.  Storage that destroy released is left as it was.                 *)
(***************************************************************************)
\* mpmc_get_sender / mpsc_get_sender / spmc_get_sender
GetSender(p) ==
  /\ hnd.dpc = "idle" /\ hnd.sender[p] = NULL
  /\ hnd' = get_sender(hnd, q_kind, p)
  /\ UNCHANGED <<chan, q_kind, q_pc, q_pos, q_elem, q_ret, q_nsend, q_nrecv,
                 q_sent, q_rcvd, sonly>>

\* mpmc_get_receiver / spmc_get_receiver / mpsc_get_receiver
GetReceiver(c) ==
  /\ hnd.dpc = "idle" /\ hnd.receiver[c] = NULL
  /\ hnd' = get_receiver(hnd, q_kind, c)
  /\ UNCHANGED <<chan, q_kind, q_pc, q_pos, q_elem, q_ret, q_nsend, q_nrecv,
                 q_sent, q_rcvd, sonly>>

\* mpmc_close_sender / mpsc_close_sender:
\* atomic_fetch_sub(sender->chan_prod_count, 1)
CloseSenderCount(p) ==
  /\ TracksProd(q_kind)
  /\ q_pc[p] = "idle" /\ hnd.sender[p] = OPEN
  /\ hnd' = close_sender_count(hnd)
  /\ q_pc' = [q_pc EXCEPT ![p] = "close_mark"]
  /\ UNCHANGED <<chan, q_kind, q_pos, q_elem, q_ret, q_nsend, q_nrecv,
                 q_sent, q_rcvd, sonly>>

\* atomic_store(&sender->sender_state, CLOSED)
CloseSenderMark(p) ==
  /\ TracksProd(q_kind)
  /\ q_pc[p] = "close_mark"
  /\ hnd' = close_sender_mark(hnd, p)
  /\ q_pc' = [q_pc EXCEPT ![p] = "idle"]
  /\ UNCHANGED <<chan, q_kind, q_pos, q_elem, q_ret, q_nsend, q_nrecv,
                 q_sent, q_rcvd, sonly>>

\* mpmc_close_receiver / spmc_close_receiver:
\* atomic_fetch_sub(receiver->chan_cons_count, 1)
CloseReceiverCount(c) ==
  /\ TracksCons(q_kind)
  /\ q_pc[c] = "idle" /\ hnd.receiver[c] = OPEN
  /\ hnd' = close_receiver_count(hnd)
  /\ q_pc' = [q_pc EXCEPT ![c] = "close_mark"]
  /\ UNCHANGED <<chan, q_kind, q_pos, q_elem, q_ret, q_nsend, q_nrecv,
                 q_sent, q_rcvd, sonly>>

\* atomic_store(&receiver->receiver_state, CLOSED)
CloseReceiverMark(c) ==
  /\ TracksCons(q_kind)
  /\ q_pc[c] = "close_mark"
  /\ hnd' = close_receiver_mark(hnd, c)
  /\ q_pc' = [q_pc EXCEPT ![c] = "idle"]
  /\ UNCHANGED <<chan, q_kind, q_pos, q_elem, q_ret, q_nsend, q_nrecv,
                 q_sent, q_rcvd, sonly>>

(***************************************************************************)
(* mpmc_destroy / mpsc_destroy / spmc_destroy.  One iteration of the loop  *)
(* of mpmc_destroy loads cons_cont, then prod_cont, then tests both; the   *)
(* other two load and test the one counter they have.                      *)
(***************************************************************************)
\* the first load of an iteration
DestroyLoop(kind) == IF TracksCons(kind) THEN "load_cons" ELSE "load_prod"

\* a destroy that does not wait
DestroyWaits_Never(cons_cont, prod_cont) == FALSE

\* while (cons_cont != 0 || prod_cont != 0)
DestroyWaits(cons_cont, prod_cont) == cons_cont # 0 \/ prod_cont # 0

\* mpmc_close(chan)
DestroyClose ==
  /\ hnd.dpc = "idle"
  /\ chan' = CloseChannel(chan)
  /\ hnd' = [hnd EXCEPT !.dpc = DestroyLoop(q_kind)]
  /\ UNCHANGED <<q_kind, q_pc, q_pos, q_elem, q_ret, q_nsend, q_nrecv,
                 q_sent, q_rcvd, sonly>>

\* cons_cont = atomic_load(&chan->cons_cont)
DestroyLoadCons ==
  /\ hnd.dpc = "load_cons"
  /\ hnd' = [hnd EXCEPT
               !.d_cons = hnd.cons_cont,
               !.dpc = IF TracksProd(q_kind) THEN "load_prod"
                       ELSE IF DestroyWaits(hnd.cons_cont, 0)
                            THEN DestroyLoop(q_kind) ELSE "free"]
  /\ UNCHANGED <<chan, q_kind, q_pc, q_pos, q_elem, q_ret, q_nsend, q_nrecv,
                 q_sent, q_rcvd, sonly>>

\* prod_cont = atomic_load(&chan->prod_cont); the loop test
DestroyLoadProd ==
  /\ hnd.dpc = "load_prod"
  /\ hnd' = [hnd EXCEPT
               !.dpc = IF DestroyWaits(hnd.d_cons, hnd.prod_cont)
                       THEN DestroyLoop(q_kind) ELSE "free"]
  /\ UNCHANGED <<chan, q_kind, q_pc, q_pos, q_elem, q_ret, q_nsend, q_nrecv,
                 q_sent, q_rcvd, sonly>>

\* free(chan->buffer[x].data) ...; free(chan->buffer); free(chan); return
DestroyFree ==
  /\ hnd.dpc = "free"
  /\ hnd' = [hnd EXCEPT !.freed = TRUE, !.dpc = "done"]
  /\ UNCHANGED <<chan, q_kind, q_pc, q_pos, q_elem, q_ret, q_nsend, q_nrecv,
                 q_sent, q_rcvd, sonly>>

Destroy == DestroyClose \/ DestroyLoadCons \/ DestroyLoadProd \/ DestroyFree

HKinds == {"mpsc", "spmc", "mpmc"}

HInit ==
  /\ q_kind \in HKinds
  /\ hnd = NoHandles
  /\ \E capacity \in 1 .. MaxCap : chan = channel_create(capacity)
  /\ q_pc = [t \in QThreads |-> "idle"]
  /\ q_pos = [t \in QThreads |-> 0]
  /\ q_elem = [t \in QThreads |-> NULL]
  /\ q_ret = [t \in QThreads |-> NULL]
  /\ q_nsend = 0
  /\ q_nrecv = 0
  /\ q_sent = {}
  /\ q_rcvd = {}
  /\ SchedulerParked

HNext ==
  \/ \E p \in Producers(q_kind) : GetSender(p)
  \/ \E c \in Consumers(q_kind) : GetReceiver(c)
  \/ \E p \in Producers(q_kind) : CloseSenderCount(p)
  \/ \E p \in Producers(q_kind) : CloseSenderMark(p)
  \/ \E c \in Consumers(q_kind) : CloseReceiverCount(c)
  \/ \E c \in Consumers(q_kind) : CloseReceiverMark(c)
  \/ DestroyClose
  \/ DestroyLoadCons
  \/ DestroyLoadProd
  \/ DestroyFree
  \/ \E p \in Producers(q_kind) : q_nsend < HMaxSends /\ SendEnterClosed(p)
  \/ \E p \in Producers(q_kind) : q_nsend < HMaxSends /\ SendEnterOpen(p)
  \/ \E p \in Producers(q_kind) : SendClaim(p)
  \/ \E p \in Producers(q_kind) : SendSpinClosed(p)
  \/ \E p \in Producers(q_kind) : SendWrite(p)
  \/ \E p \in Producers(q_kind) : SendDone(p)
  \/ \E c \in Consumers(q_kind) : q_nrecv < HMaxRecvs /\ RecvEnterClosed(c)
  \/ \E c \in Consumers(q_kind) : q_nrecv < HMaxRecvs /\ RecvClaim(c)
  \/ \E c \in Consumers(q_kind) : RecvSpinClosed(c)
  \/ \E c \in Consumers(q_kind) : RecvRead(c)
  \/ \E c \in Consumers(q_kind) : RecvDone(c)
  \/ \E c \in Consumers(q_kind) : q_nrecv < HMaxRecvs /\ MpscRecvEmpty(c)
  \/ \E c \in Consumers(q_kind) : q_nrecv < HMaxRecvs /\ MpscRecvEnter(c)
  \/ \E c \in Consumers(q_kind) : MpscRecvUnpublished(c)
  \/ \E c \in Consumers(q_kind) : MpscRecvRead(c)
  \/ \E c \in Consumers(q_kind) : MpscRecvDone(c)

HSpec == HInit /\ [][HNext]_vars

(***************************************************************************)
(* The job scheduler (jobsystem.c) on the region arena (r_arena.c).        *)
(*                                                                         *)
(* A job-handle pointer is [cell, sid]: the logical index of the arena     *)
(* cell it points to, and the number of the job_spawn call that returned   *)
(* it.  The code sees the cell only; sid is history that travels with the  *)
(* pointer.                                                                *)
(***************************************************************************)
Workers == 1 .. NWorkers
Cells == 0 .. JOB_SCHEDULER_MAX_JOBS - 1
Regions == 0 .. JOB_SCHEDULER_MAX_REGIONS - 1

\* the null JobHandle pointer
NOJOB == [cell |-> -1, sid |-> 0]

\* a calloc'ed / memset JobHandle
ZeroHandle == [Job |-> NULL, unfinished |-> 0, continuation |-> NOJOB]

\* job_spawn's initialisation of the handle
FreshHandle == [Job |-> "fn", unfinished |-> 1, continuation |-> NOJOB]

RegionOf(count) == count \div JOB_SCHEDULER_REGION_CAPACITY

CellsOf(region) == {c \in Cells : RegionOf(c) = region}

\* r_arena_create(sizeof(JobHandle), REGION_CAPACITY, MAX_REGIONS)
r_arena_create ==
  [ count         |-> 0,
    current_epoch |-> 0,
    rgs_in_use    |-> 1,
    epoch         |-> [r \in Regions |-> IF r = 0 THEN 0 ELSE NULL] ]

\* _ensure_region for a region below max_rgs, by the only allocating
\* thread: the arena afterwards
EnsureRegionArena(ar, region) ==
  IF region < ar.rgs_in_use
    THEN [ar EXCEPT !.epoch[region] = ar.current_epoch]
    ELSE [ar EXCEPT !.rgs_in_use = region + 1,
                    !.epoch[region] = ar.current_epoch]

\* _ensure_region: the memory afterwards (memset of a stale region, calloc
\* of a new one)
EnsureRegionCells(ar, mem, region) ==
  IF region < ar.rgs_in_use /\ ar.epoch[region] = ar.current_epoch
    THEN mem
    ELSE [c \in Cells |-> IF c \in CellsOf(region) THEN ZeroHandle ELSE mem[c]]

\* the health-check's test: jobs_completed_epoch > MAX_JOBS - 20
OverThreshold(completed) == completed > JOB_SCHEDULER_MAX_JOBS - HealthMargin

\* threadpool_schedule's test: unfinished == 0 means do not enqueue
ScheduleSkips(unfinished) == unfinished = 0

\* the worker's test: run the job only if unfinished == 1
WorkerRuns(unfinished) == unfinished = 1

(***************************************************************************)
(* History.                                                                *)
(***************************************************************************)
NewHist(epoch) ==
  [epoch |-> epoch, submitted |-> FALSE, started |-> 0, returned |-> 0,
   actdec |-> 0, by |-> 0]

Submit(h, sids) ==
  [k \in DOMAIN h |-> IF k \in sids THEN [h[k] EXCEPT !.submitted = TRUE]
                                    ELSE h[k]]

(***************************************************************************)
(* The client thread.  main() runs one of four programs:                   *)
(*   indep  job_spawn and job_wait of cl.quota independent jobs, each      *)
(*          handle submitted once, in any order of spawning and submitting *)
(*   chain  NChain job_spawn calls, then job_chain_arr on the handles      *)
(*   bench  the benchmark's main(): NBench job_spawn calls,                *)
(*          job_then(jobs[i-1], jobs[i]) for every i, job_wait(jobs[0])    *)
(*   again  the calls of bench, then one more job_spawn and job_wait       *)
(***************************************************************************)
Progs == {"indep", "chain", "bench", "again"}

\* the independent client spawns up to one handle more than the arena holds
NIndep == JOB_SCHEDULER_MAX_JOBS + 1

Call(op, a, b) == [op |-> op, a |-> a, b |-> b]

Script(pr) ==
  IF pr = "chain"
    THEN [i \in 1 .. NChain |-> Call("spawn", 0, 0)]
           \o <<Call("chain_arr", 0, 0)>>
    ELSE [i \in 1 .. NBench |-> Call("spawn", 0, 0)]
           \o [i \in 1 .. NBench - 1 |-> Call("then", i, i + 1)]
           \o <<Call("wait", 1, 0)>>
           \o (IF pr = "again"
                 THEN <<Call("spawn", 0, 0), Call("wait", NBench + 1, 0)>>
                 ELSE <<>>)

\* the calls main() may make next
NextCalls ==
  IF prog = "indep"
    THEN (IF Len(cl.jobs) < cl.quota THEN {Call("spawn", 0, 0)} ELSE {})
           \cup (IF cl.nwait < Len(cl.jobs)
                   THEN {Call("wait", cl.nwait + 1, 0)} ELSE {})
    ELSE IF cl.step < Len(Script(prog))
           THEN {Script(prog)[cl.step + 1]} ELSE {}

Alive == aborted = NULL

Init ==
  /\ chan = channel_create(JOB_SCHEDULER_MAX_JOBS)
  /\ q_kind = "mpmc"
  /\ ChannelThreadsParked
  /\ sched = [accepting_jobs |-> 1, active_jobs |-> 0,
              jobs_completed_epoch |-> 0]
  /\ arena = r_arena_create
  /\ cells = [c \in Cells |-> ZeroHandle]
  /\ wk = [w \in Workers |-> [pc |-> "idle", job |-> NOJOB, cont |-> NOJOB,
                              pos |-> 0]]
  /\ prog \in Progs
  /\ \E quota \in 1 .. NIndep :
       cl = [pc |-> "top", jobs |-> <<>>, step |-> 0, nwait |-> 0,
             arg |-> NOJOB, first |-> NOJOB, then |-> NOJOB, x |-> 0,
             count |-> 0, epoch |-> 0, pos |-> 0,
             quota |-> IF prog = "indep" THEN quota ELSE 0]
  /\ aborted = NULL
  /\ hist = <<>>

\* ---- job_spawn ----
ClientSpawnEnter ==
  /\ Alive /\ cl.pc = "top"
  /\ \E c \in NextCalls : c.op = "spawn"
  /\ cl' = [cl EXCEPT !.pc = "sp_gate", !.step = @ + 1]
  /\ UNCHANGED <<chan, qonly, sched, arena, cells, wk, prog, aborted, hist>>

\* while (load(accepting_jobs) != 1) cpu_relax();
ClientSpawnGate ==
  /\ Alive /\ cl.pc = "sp_gate"
  /\ sched.accepting_jobs = 1
  /\ cl' = [cl EXCEPT !.pc = "sp_inc"]
  /\ UNCHANGED <<chan, qonly, sched, arena, cells, wk, prog, aborted, hist>>

\* atomic_fetch_add(&active_jobs, 1)
ClientSpawnInc ==
  /\ Alive /\ cl.pc = "sp_inc"
  /\ sched' = [sched EXCEPT !.active_jobs = SizeAdd(@, 1)]
  /\ cl' = [cl EXCEPT !.pc = "sp_alloc"]
  /\ UNCHANGED <<chan, qonly, arena, cells, wk, prog, aborted, hist>>

\* r_arena_alloc: count = atomic_fetch_add(&arena->count, 1)
ClientSpawnAlloc ==
  /\ Alive /\ cl.pc = "sp_alloc"
  /\ arena' = [arena EXCEPT !.count = SizeAdd(@, 1)]
  /\ cl' = [cl EXCEPT !.pc = "sp_region", !.count = arena.count,
                      !.epoch = arena.current_epoch]
  /\ UNCHANGED <<chan, qonly, sched, cells, wk, prog, aborted, hist>>

\* _ensure_region: if (region >= arena->max_rgs) abort();
ClientSpawnAbort ==
  /\ Alive /\ cl.pc = "sp_region"
  /\ RegionOf(cl.count) >= JOB_SCHEDULER_MAX_REGIONS
  /\ aborted' = "abort"
  /\ UNCHANGED <<chan, qonly, sched, arena, cells, wk, prog, cl, hist>>

\* _ensure_region, then r_arena_alloc returns the cell
ClientSpawnRegion ==
  /\ Alive /\ cl.pc = "sp_region"
  /\ RegionOf(cl.count) < JOB_SCHEDULER_MAX_REGIONS
  /\ arena' = EnsureRegionArena(arena, RegionOf(cl.count))
  /\ cells' = EnsureRegionCells(arena, cells, RegionOf(cl.count))
  /\ cl' = [cl EXCEPT !.pc = "sp_init"]
  /\ UNCHANGED <<chan, qonly, sched, wk, prog, aborted, hist>>

\* job->Job = fn; job->ctx = ctx; atomic_init(&job->unfinished, 1);
\* job->continuation = NULL; return job;
ClientSpawnInit ==
  /\ Alive /\ cl.pc = "sp_init"
  /\ cells' = [cells EXCEPT ![cl.count] = FreshHandle]
  /\ hist' = Append(hist, NewHist(cl.epoch))
  /\ cl' = [cl EXCEPT !.pc = "top",
                      !.jobs = Append(@, [cell |-> cl.count,
                                          sid |-> Len(hist) + 1])]
  /\ UNCHANGED <<chan, qonly, sched, arena, wk, prog, aborted>>

\* ---- job_wait(job): threadpool_schedule(dispatcher, job) ----
ClientWaitEnter ==
  /\ Alive /\ cl.pc = "top"
  /\ \E c \in NextCalls :
       /\ c.op = "wait"
       /\ cl' = [cl EXCEPT !.pc = "sched_load", !.step = @ + 1,
                           !.nwait = @ + 1, !.arg = cl.jobs[c.a]]
       /\ hist' = Submit(hist, {cl.jobs[c.a].sid})
  /\ UNCHANGED <<chan, qonly, sched, arena, cells, wk, prog, aborted>>

\* ---- job_then(first, then) ----
ClientThenEnter ==
  /\ Alive /\ cl.pc = "top"
  /\ \E c \in NextCalls :
       /\ c.op = "then"
       /\ cl' = [cl EXCEPT !.pc = "then_cont", !.step = @ + 1,
                           !.first = cl.jobs[c.a], !.then = cl.jobs[c.b]]
       /\ hist' = Submit(hist, {cl.jobs[c.a].sid, cl.jobs[c.b].sid})
  /\ UNCHANGED <<chan, qonly, sched, arena, cells, wk, prog, aborted>>

\* first->continuation = then;
ClientThenLink ==
  /\ Alive /\ cl.pc = "then_cont"
  /\ cells' = [cells EXCEPT ![cl.first.cell].continuation = cl.then]
  /\ cl' = [cl EXCEPT !.pc = "then_inc"]
  /\ UNCHANGED <<chan, qonly, sched, arena, wk, prog, aborted, hist>>

\* atomic_fetch_add(&then->unfinished, 1); threadpool_schedule(.., first)
ClientThenInc ==
  /\ Alive /\ cl.pc = "then_inc"
  /\ cells' = [cells EXCEPT ![cl.then.cell].unfinished = SizeAdd(@, 1)]
  /\ cl' = [cl EXCEPT !.pc = "sched_load", !.arg = cl.first]
  /\ UNCHANGED <<chan, qonly, sched, arena, wk, prog, aborted, hist>>

\* ---- job_chain_arr(num_jobs, job_list); job_chain is the same loop ----
\* prev_job when the loop links job_list[x] (0-based), without the
\* assignment prev_job = job
PrevJob_Stuck(jobs, x) == jobs[1]

\* prev_job when the loop links job_list[x] (0-based): the job before it
PrevJob(jobs, x) == jobs[x]

\* the first iteration: job_to_schedule = prev_job = job_list[0]
ClientChainEnter ==
  /\ Alive /\ cl.pc = "top"
  /\ \E c \in NextCalls : c.op = "chain_arr"
  /\ cl' = [cl EXCEPT !.pc = "chain_loop", !.step = @ + 1, !.x = 1]
  /\ hist' = Submit(hist, {cl.jobs[k].sid : k \in 1 .. Len(cl.jobs)})
  /\ UNCHANGED <<chan, qonly, sched, arena, cells, wk, prog, aborted>>

\* a later iteration: prev_job->continuation = job;
\* atomic_fetch_add(&job->unfinished, 1); prev_job = job;
ClientChainLink ==
  /\ Alive /\ cl.pc = "chain_loop"
  /\ cl.x < Len(cl.jobs)
  /\ cells' = [cells EXCEPT
                 ![PrevJob(cl.jobs, cl.x).cell].continuation = cl.jobs[cl.x + 1],
                 ![cl.jobs[cl.x + 1].cell].unfinished = SizeAdd(@, 1)]
  /\ cl' = [cl EXCEPT !.x = @ + 1]
  /\ UNCHANGED <<chan, qonly, sched, arena, wk, prog, aborted, hist>>

\* after the loop: threadpool_schedule(dispatcher, job_to_schedule)
ClientChainSubmit ==
  /\ Alive /\ cl.pc = "chain_loop"
  /\ cl.x >= Len(cl.jobs)
  /\ cl' = [cl EXCEPT !.pc = "sched_load", !.arg = cl.jobs[1]]
  /\ UNCHANGED <<chan, qonly, sched, arena, cells, wk, prog, aborted, hist>>

\* ---- threadpool_schedule(dispatcher, scheduled_job) ----
\* if (load(&scheduled_job->unfinished) == 0) return;
ClientSchedSkip ==
  /\ Alive /\ cl.pc = "sched_load"
  /\ ScheduleSkips(cells[cl.arg.cell].unfinished)
  /\ cl' = [cl EXCEPT !.pc = "top"]
  /\ UNCHANGED <<chan, qonly, sched, arena, cells, wk, prog, aborted, hist>>

\* otherwise mpmc_send(sender, &scheduled_job); the channel is OPEN
ClientSchedSend ==
  /\ Alive /\ cl.pc = "sched_load"
  /\ ~ScheduleSkips(cells[cl.arg.cell].unfinished)
  /\ cl' = [cl EXCEPT !.pc = "send_claim"]
  /\ UNCHANGED <<chan, qonly, sched, arena, cells, wk, prog, aborted, hist>>

\* mpmc_send: head = atomic_fetch_add(sender->head, 1)
ClientSendClaim ==
  /\ Alive /\ cl.pc = "send_claim"
  /\ chan' = ClaimHead(chan)
  /\ cl' = [cl EXCEPT !.pc = "send_spin", !.pos = chan.head]
  /\ UNCHANGED <<qonly, sched, arena, cells, wk, prog, aborted, hist>>

\* mpmc_send: the loop test passes; memcpy; store seq = head + 1
ClientSendPut ==
  /\ Alive /\ cl.pc = "send_spin"
  /\ SendSeqReady(chan.seq[SlotOf(chan, cl.pos)], cl.pos)
  /\ chan' = SendPublish(SendCopy(chan, cl.pos, cl.arg), cl.pos)
  /\ cl' = [cl EXCEPT !.pc = "top"]
  /\ UNCHANGED <<qonly, sched, arena, cells, wk, prog, aborted, hist>>

(***************************************************************************)
(* A worker thread: __set_worker_scheduler.  The dispatch channel is never *)
(* closed here (no job_scheduler_shutdown), so mpmc_recv and mpmc_send     *)
(* leave their loops only by the sequence test.                            *)
(***************************************************************************)
WSet(w, pc) == [wk EXCEPT ![w].pc = pc]

\* mpmc_recv: tail = atomic_fetch_add(receiver->tail, 1)
WRecvClaim(w) ==
  /\ Alive /\ wk[w].pc = "idle"
  /\ chan' = ClaimTail(chan)
  /\ wk' = [wk EXCEPT ![w].pc = "recv_spin", ![w].pos = chan.tail]
  /\ UNCHANGED <<qonly, sched, arena, cells, prog, cl, aborted, hist>>

\* mpmc_recv: the loop test passes; memcpy; store seq = tail + capacity
WRecvTake(w) ==
  /\ Alive /\ wk[w].pc = "recv_spin"
  /\ RecvSeqReady(chan.seq[SlotOf(chan, wk[w].pos)], wk[w].pos)
  /\ chan' = RecvRearm(chan, wk[w].pos)
  /\ wk' = [wk EXCEPT ![w].pc = "assert",
                      ![w].job = chan.data[SlotOf(chan, wk[w].pos)]]
  /\ UNCHANGED <<qonly, sched, arena, cells, prog, cl, aborted, hist>>

\* assert(job != NULL); assert(job->Job != NULL);  -- fails
WAssertFail(w) ==
  /\ Alive /\ wk[w].pc = "assert"
  /\ cells[wk[w].job.cell].Job = NULL
  /\ aborted' = "assert"
  /\ UNCHANGED <<chan, qonly, sched, arena, cells, wk, prog, cl, hist>>

\* assert(job != NULL); assert(job->Job != NULL);  -- passes
WAssertPass(w) ==
  /\ Alive /\ wk[w].pc = "assert"
  /\ cells[wk[w].job.cell].Job # NULL
  /\ wk' = WSet(w, "check")
  /\ UNCHANGED <<chan, qonly, sched, arena, cells, prog, cl, aborted, hist>>

\* if (load(&job->unfinished) == 1) is false: back to mpmc_recv
WCheckSkip(w) ==
  /\ Alive /\ wk[w].pc = "check"
  /\ ~WorkerRuns(cells[wk[w].job.cell].unfinished)
  /\ wk' = [wk EXCEPT ![w].pc = "idle", ![w].job = NOJOB]
  /\ UNCHANGED <<chan, qonly, sched, arena, cells, prog, cl, aborted, hist>>

\* if (load(&job->unfinished) == 1) is true: job->Job(job->ctx) is invoked
WRun(w) ==
  /\ Alive /\ wk[w].pc = "check"
  /\ WorkerRuns(cells[wk[w].job.cell].unfinished)
  /\ hist' = [hist EXCEPT ![wk[w].job.sid].started = @ + 1,
                          ![wk[w].job.sid].by = w]
  /\ wk' = WSet(w, "running")
  /\ UNCHANGED <<chan, qonly, sched, arena, cells, prog, cl, aborted>>

\* job->Job returns; atomic_fetch_add(&jobs_completed_epoch, 1)
WReturn(w) ==
  /\ Alive /\ wk[w].pc = "running"
  /\ hist' = [hist EXCEPT ![wk[w].job.sid].returned = @ + 1]
  /\ sched' = [sched EXCEPT !.jobs_completed_epoch = SizeAdd(@, 1)]
  /\ wk' = WSet(w, "dec_unf")
  /\ UNCHANGED <<chan, qonly, arena, cells, prog, cl, aborted>>

\* atomic_fetch_sub(&job->unfinished, 1)
WDecUnfinished(w) ==
  /\ Alive /\ wk[w].pc = "dec_unf"
  /\ cells' = [cells EXCEPT ![wk[w].job.cell].unfinished = SizeSub(@, 1)]
  /\ wk' = WSet(w, "read_cont")
  /\ UNCHANGED <<chan, qonly, sched, arena, prog, cl, aborted, hist>>

\* if (job->continuation) is true
WReadCont(w) ==
  /\ Alive /\ wk[w].pc = "read_cont"
  /\ cells[wk[w].job.cell].continuation # NOJOB
  /\ wk' = [wk EXCEPT ![w].pc = "dec_cont",
                      ![w].cont = cells[wk[w].job.cell].continuation]
  /\ UNCHANGED <<chan, qonly, sched, arena, cells, prog, cl, aborted, hist>>

\* if (job->continuation) is false: _job_scheduler_healthcheck()
WReadNoCont(w) ==
  /\ Alive /\ wk[w].pc = "read_cont"
  /\ cells[wk[w].job.cell].continuation = NOJOB
  /\ wk' = WSet(w, "health")
  /\ UNCHANGED <<chan, qonly, sched, arena, cells, prog, cl, aborted, hist>>

\* a worker that enqueues the continuation without the decrement
dec_continuation_Skip(unfinished) == unfinished

\* atomic_fetch_sub(&job->continuation->unfinished, 1)
dec_continuation(unfinished) == SizeSub(unfinished, 1)

\* atomic_fetch_sub(&job->continuation->unfinished, 1)
WDecCont(w) ==
  /\ Alive /\ wk[w].pc = "dec_cont"
  /\ cells' = [cells EXCEPT
                 ![wk[w].cont.cell].unfinished = dec_continuation(@)]
  /\ wk' = WSet(w, "sched_load")
  /\ UNCHANGED <<chan, qonly, sched, arena, prog, cl, aborted, hist>>

\* threadpool_schedule(worker->sender, job->continuation): unfinished == 0
WSchedSkip(w) ==
  /\ Alive /\ wk[w].pc = "sched_load"
  /\ ScheduleSkips(cells[wk[w].cont.cell].unfinished)
  /\ wk' = [wk EXCEPT ![w].pc = "dec_active", ![w].cont = NOJOB]
  /\ UNCHANGED <<chan, qonly, sched, arena, cells, prog, cl, aborted, hist>>

\* threadpool_schedule: unfinished != 0;
\* mpmc_send: head = atomic_fetch_add(sender->head, 1)
WSchedSend(w) ==
  /\ Alive /\ wk[w].pc = "sched_load"
  /\ ~ScheduleSkips(cells[wk[w].cont.cell].unfinished)
  /\ wk' = WSet(w, "send_claim")
  /\ UNCHANGED <<chan, qonly, sched, arena, cells, prog, cl, aborted, hist>>

WSendClaim(w) ==
  /\ Alive /\ wk[w].pc = "send_claim"
  /\ chan' = ClaimHead(chan)
  /\ wk' = [wk EXCEPT ![w].pc = "send_spin", ![w].pos = chan.head]
  /\ UNCHANGED <<qonly, sched, arena, cells, prog, cl, aborted, hist>>

\* mpmc_send: the loop test passes; memcpy; store seq = head + 1
WSendPut(w) ==
  /\ Alive /\ wk[w].pc = "send_spin"
  /\ SendSeqReady(chan.seq[SlotOf(chan, wk[w].pos)], wk[w].pos)
  /\ chan' = SendPublish(SendCopy(chan, wk[w].pos, wk[w].cont), wk[w].pos)
  /\ wk' = [wk EXCEPT ![w].pc = "dec_active", ![w].cont = NOJOB]
  /\ UNCHANGED <<qonly, sched, arena, cells, prog, cl, aborted, hist>>

\* _job_scheduler_healthcheck: the threshold is not exceeded
WHealthOk(w) ==
  /\ Alive /\ wk[w].pc = "health"
  /\ ~OverThreshold(sched.jobs_completed_epoch)
  /\ wk' = WSet(w, "dec_active")
  /\ UNCHANGED <<chan, qonly, sched, arena, cells, prog, cl, aborted, hist>>

\* _job_scheduler_healthcheck: the threshold is exceeded;
\* _job_scheduler_reset: atomic_store(&accepting_jobs, 0)
WHealthReset(w) ==
  /\ Alive /\ wk[w].pc = "health"
  /\ OverThreshold(sched.jobs_completed_epoch)
  /\ sched' = [sched EXCEPT !.accepting_jobs = 0]
  /\ wk' = WSet(w, "reset_wait")
  /\ UNCHANGED <<chan, qonly, arena, cells, prog, cl, aborted, hist>>

\* while (load(&active_jobs) != 0) cpu_relax();  -- the loop ends
\* r_arena_reset: atomic_fetch_add(&arena->current_epoch, 1)
WResetDrained(w) ==
  /\ Alive /\ wk[w].pc = "reset_wait"
  /\ sched.active_jobs = 0
  /\ wk' = WSet(w, "reset_epoch")
  /\ UNCHANGED <<chan, qonly, sched, arena, cells, prog, cl, aborted, hist>>

WResetEpoch(w) ==
  /\ Alive /\ wk[w].pc = "reset_epoch"
  /\ arena' = [arena EXCEPT !.current_epoch = SizeAdd(@, 1)]
  /\ wk' = WSet(w, "reset_count")
  /\ UNCHANGED <<chan, qonly, sched, cells, prog, cl, aborted, hist>>

\* r_arena_reset: atomic_store(&arena->count, 0)
WResetCount(w) ==
  /\ Alive /\ wk[w].pc = "reset_count"
  /\ arena' = [arena EXCEPT !.count = 0]
  /\ wk' = WSet(w, "reset_completed")
  /\ UNCHANGED <<chan, qonly, sched, cells, prog, cl, aborted, hist>>

\* atomic_store(&jobs_completed_epoch, 0)
WResetCompleted(w) ==
  /\ Alive /\ wk[w].pc = "reset_completed"
  /\ sched' = [sched EXCEPT !.jobs_completed_epoch = 0]
  /\ wk' = WSet(w, "reset_accept")
  /\ UNCHANGED <<chan, qonly, arena, cells, prog, cl, aborted, hist>>

\* atomic_store(&accepting_jobs, 1)
WResetAccept(w) ==
  /\ Alive /\ wk[w].pc = "reset_accept"
  /\ sched' = [sched EXCEPT !.accepting_jobs = 1]
  /\ wk' = WSet(w, "dec_active")
  /\ UNCHANGED <<chan, qonly, arena, cells, prog, cl, aborted, hist>>

\* atomic_fetch_sub(&active_jobs, 1); back to mpmc_recv
WDecActive(w) ==
  /\ Alive /\ wk[w].pc = "dec_active"
  /\ sched' = [sched EXCEPT !.active_jobs = SizeSub(@, 1)]
  /\ hist' = [hist EXCEPT ![wk[w].job.sid].actdec = @ + 1]
  /\ wk' = [wk EXCEPT ![w].pc = "idle", ![w].job = NOJOB]
  /\ UNCHANGED <<chan, qonly, arena, cells, prog, cl, aborted>>

Next ==
  \/ ClientSpawnEnter
  \/ ClientSpawnGate
  \/ ClientSpawnInc
  \/ ClientSpawnAlloc
  \/ ClientSpawnAbort
  \/ ClientSpawnRegion
  \/ ClientSpawnInit
  \/ ClientWaitEnter
  \/ ClientThenEnter
  \/ ClientThenLink
  \/ ClientThenInc
  \/ ClientChainEnter
  \/ ClientChainLink
  \/ ClientChainSubmit
  \/ ClientSchedSkip
  \/ ClientSchedSend
  \/ ClientSendClaim
  \/ ClientSendPut
  \/ \E w \in Workers : WRecvClaim(w)
  \/ \E w \in Workers : WRecvTake(w)
  \/ \E w \in Workers : WAssertFail(w)
  \/ \E w \in Workers : WAssertPass(w)
  \/ \E w \in Workers : WCheckSkip(w)
  \/ \E w \in Workers : WRun(w)
  \/ \E w \in Workers : WReturn(w)
  \/ \E w \in Workers : WDecUnfinished(w)
  \/ \E w \in Workers : WReadCont(w)
  \/ \E w \in Workers : WReadNoCont(w)
  \/ \E w \in Workers : WDecCont(w)
  \/ \E w \in Workers : WSchedSkip(w)
  \/ \E w \in Workers : WSchedSend(w)
  \/ \E w \in Workers : WSendClaim(w)
  \/ \E w \in Workers : WSendPut(w)
  \/ \E w \in Workers : WHealthOk(w)
  \/ \E w \in Workers : WHealthReset(w)
  \/ \E w \in Workers : WResetDrained(w)
  \/ \E w \in Workers : WResetEpoch(w)
  \/ \E w \in Workers : WResetCount(w)
  \/ \E w \in Workers : WResetCompleted(w)
  \/ \E w \in Workers : WResetAccept(w)
  \/ \E w \in Workers : WDecActive(w)

Spec == Init /\ [][Next]_vars

(***************************************************************************)
(* The plain thread pool (threadpool.c): main() calls threadpool_init,     *)
(* threadpool_execute some times and threadpool_shutdown; the workers run  *)
(* __set_worker.  The pool uses chan and hnd; of the scheduler's variables *)
(*   cl    is main(): pc, x (loop counter), pos (the position its send     *)
(*         claimed), n (jobs submitted)                                    *)
(*   wk    per worker: pc, pos, job (the job in its local `job`)           *)
(*   hist  per job: how often its function has returned                    *)
(* A job is the number of the threadpool_execute call that submitted it.   *)
(* Every job function returns: PWRun is always enabled at its pc.          *)
(***************************************************************************)
\* the owner of tp->dispatcher among the handle owners
Dispatcher == 0
PoolJobs == 1 .. NPoolJobs
qthreads == <<q_kind, q_pc, q_pos, q_elem, q_ret, q_nsend, q_nrecv, q_sent,
              q_rcvd>>
pidle == <<qthreads, sched, arena, cells, prog, aborted>>

\* channel_create_mpmc(num_threads * 4, sizeof(__Job__))
PoolCapacity == NWorkers * 4

PoolNoHandles ==
  [NoHandles EXCEPT !.sender = [t \in {Dispatcher} \cup Workers |-> NULL],
                    !.receiver = [t \in Workers |-> NULL]]

\* threadpool_init up to tp->dispatcher = mpmc_get_sender(tp->channel)
PInit ==
  /\ chan = channel_create(PoolCapacity)
  /\ hnd = get_sender(PoolNoHandles, "mpmc", Dispatcher)
  /\ q_kind = "mpmc"
  /\ q_pc = [t \in QThreads |-> "idle"]
  /\ q_pos = [t \in QThreads |-> 0]
  /\ q_elem = [t \in QThreads |-> NULL]
  /\ q_ret = [t \in QThreads |-> NULL]
  /\ q_nsend = 0
  /\ q_nrecv = 0
  /\ q_sent = {}
  /\ q_rcvd = {}
  /\ sched = NULL /\ arena = NULL /\ cells = NULL /\ aborted = NULL
  /\ prog = "pool"
  /\ wk = [w \in Workers |-> [pc |-> "none", pos |-> 0, job |-> 0]]
  /\ cl = [pc |-> "spawn", x |-> 0, pos |-> 0, n |-> 0]
  /\ hist = [j \in PoolJobs |-> 0]

\* threadpool_init, one iteration: mpmc_get_receiver, mpmc_get_sender,
\* pthread_create.  One step: the thread does not exist before its end.
PoolSpawnWorker ==
  /\ cl.pc = "spawn"
  /\ hnd' = get_sender(get_receiver(hnd, "mpmc", cl.x + 1), "mpmc", cl.x + 1)
  /\ wk' = [wk EXCEPT ![cl.x + 1].pc = "recv"]
  /\ cl' = [cl EXCEPT !.x = cl.x + 1,
                      !.pc = IF cl.x + 1 < NWorkers THEN "spawn" ELSE "top"]
  /\ UNCHANGED <<chan, hist, pidle>>

\* threadpool_execute: mpmc_send finds the channel open (only main()
\* closes it) and takes head = atomic_fetch_add(sender->head, 1)
PoolExecuteClaim ==
  /\ cl.pc = "top" /\ cl.n < NPoolJobs
  /\ ~SendRefused(chan.state)
  /\ chan' = ClaimHead(chan)
  /\ cl' = [cl EXCEPT !.pc = "send_spin", !.pos = chan.head]
  /\ UNCHANGED <<hnd, wk, hist, pidle>>

\* mpmc_send: the loop test passes; memcpy; store seq = head + 1
PoolExecutePut ==
  /\ cl.pc = "send_spin"
  /\ SendSeqReady(chan.seq[SlotOf(chan, cl.pos)], cl.pos)
  /\ chan' = SendPublish(SendCopy(chan, cl.pos, cl.n + 1), cl.pos)
  /\ cl' = [cl EXCEPT !.pc = "top", !.n = cl.n + 1]
  /\ UNCHANGED <<hnd, wk, hist, pidle>>

\* threadpool_shutdown: mpmc_close_sender(threadpool->dispatcher), the
\* decrement
PoolShutdownCount ==
  /\ cl.pc = "top"
  /\ hnd' = close_sender_count(hnd)
  /\ cl' = [cl EXCEPT !.pc = "sd_mark"]
  /\ UNCHANGED <<chan, wk, hist, pidle>>

\* mpmc_close_sender(threadpool->dispatcher), the store
PoolShutdownMark ==
  /\ cl.pc = "sd_mark"
  /\ hnd' = close_sender_mark(hnd, Dispatcher)
  /\ cl' = [cl EXCEPT !.pc = "sd_close"]
  /\ UNCHANGED <<chan, wk, hist, pidle>>

\* mpmc_close(threadpool->channel)
PoolShutdownClose ==
  /\ cl.pc = "sd_close"
  /\ chan' = CloseChannel(chan)
  /\ cl' = [cl EXCEPT !.pc = "join", !.x = 0]
  /\ UNCHANGED <<hnd, wk, hist, pidle>>

\* pthread_join(threadpool->workers[x], NULL) returns
PoolJoin ==
  /\ cl.pc = "join"
  /\ wk[cl.x + 1].pc = "exited"
  /\ cl' = [cl EXCEPT !.x = cl.x + 1,
                      !.pc = IF cl.x + 1 < NWorkers THEN "join" ELSE "destroy"]
  /\ UNCHANGED <<chan, hnd, wk, hist, pidle>>

\* mpmc_destroy(threadpool->channel), step by step
PoolDestroy ==
  /\ cl.pc = "destroy"
  /\ Destroy

\* mpmc_destroy has returned: free(...); return
PoolShutdownReturn ==
  /\ cl.pc = "destroy" /\ hnd.dpc = "done"
  /\ cl' = [cl EXCEPT !.pc = "done"]
  /\ UNCHANGED <<chan, hnd, wk, hist, pidle>>

PMain ==
  \/ PoolSpawnWorker \/ PoolExecuteClaim \/ PoolExecutePut
  \/ PoolShutdownCount \/ PoolShutdownMark \/ PoolShutdownClose
  \/ PoolJoin \/ PoolDestroy \/ PoolShutdownReturn

\* __set_worker: mpmc_recv finds its receiver open and takes
\* tail = atomic_fetch_add(receiver->tail, 1)
PWRecvClaim(w) ==
  /\ wk[w].pc = "recv"
  /\ ~RecvRefused(hnd.receiver[w])
  /\ chan' = ClaimTail(chan)
  /\ wk' = [wk EXCEPT ![w].pc = "spin", ![w].pos = chan.tail]
  /\ UNCHANGED <<hnd, cl, hist, pidle>>

\* mpmc_recv: the loop test passes; memcpy; store seq = tail + capacity;
\* return CHANNEL_OK
PWRecvTake(w) ==
  /\ wk[w].pc = "spin"
  /\ RecvSeqReady(chan.seq[SlotOf(chan, wk[w].pos)], wk[w].pos)
  /\ chan' = RecvRearm(chan, wk[w].pos)
  /\ wk' = [wk EXCEPT ![w].pc = "run",
                      ![w].job = chan.data[SlotOf(chan, wk[w].pos)]]
  /\ UNCHANGED <<hnd, cl, hist, pidle>>

\* mpmc_recv: the loop body sees CLOSED: return CHANNEL_ERR_CLOSED
PWRecvClosed(w) ==
  /\ wk[w].pc = "spin"
  /\ ~RecvSeqReady(chan.seq[SlotOf(chan, wk[w].pos)], wk[w].pos)
  /\ LoopSeesClosed(chan.state)
  /\ wk' = [wk EXCEPT ![w].pc = "check"]
  /\ UNCHANGED <<chan, hnd, cl, hist, pidle>>

\* job.job(job.arg) runs and returns
PWRun(w) ==
  /\ wk[w].pc = "run"
  /\ hist' = [hist EXCEPT ![wk[w].job] = @ + 1]
  /\ wk' = [wk EXCEPT ![w].pc = "recv"]
  /\ UNCHANGED <<chan, hnd, cl, pidle>>

\* else if (mpmc_is_closed(worker->chan_ref) == CLOSED) break;
PWCheck(w) ==
  /\ wk[w].pc = "check"
  /\ wk' = [wk EXCEPT ![w].pc = IF chan.state = CLOSED THEN "close_s"
                                ELSE "recv"]
  /\ UNCHANGED <<chan, hnd, cl, hist, pidle>>

\* mpmc_close_sender(worker->sender)
PWCloseSenderCount(w) ==
  /\ wk[w].pc = "close_s"
  /\ hnd' = close_sender_count(hnd)
  /\ wk' = [wk EXCEPT ![w].pc = "mark_s"]
  /\ UNCHANGED <<chan, cl, hist, pidle>>

PWCloseSenderMark(w) ==
  /\ wk[w].pc = "mark_s"
  /\ hnd' = close_sender_mark(hnd, w)
  /\ wk' = [wk EXCEPT ![w].pc = "close_r"]
  /\ UNCHANGED <<chan, cl, hist, pidle>>

\* mpmc_close_receiver(worker->receiver)
PWCloseReceiverCount(w) ==
  /\ wk[w].pc = "close_r"
  /\ hnd' = close_receiver_count(hnd)
  /\ wk' = [wk EXCEPT ![w].pc = "mark_r"]
  /\ UNCHANGED <<chan, cl, hist, pidle>>

\* the store of mpmc_close_receiver; free(...); return NULL
PWCloseReceiverMark(w) ==
  /\ wk[w].pc = "mark_r"
  /\ hnd' = close_receiver_mark(hnd, w)
  /\ wk' = [wk EXCEPT ![w].pc = "exited"]
  /\ UNCHANGED <<chan, cl, hist, pidle>>

PWorker(w) ==
  \/ PWRecvClaim(w) \/ PWRecvTake(w) \/ PWRecvClosed(w) \/ PWRun(w)
  \/ PWCheck(w) \/ PWCloseSenderCount(w) \/ PWCloseSenderMark(w)
  \/ PWCloseReceiverCount(w) \/ PWCloseReceiverMark(w)

PNext ==
  \/ PoolSpawnWorker
  \/ PoolExecuteClaim
  \/ PoolExecutePut
  \/ PoolShutdownCount
  \/ PoolShutdownMark
  \/ PoolShutdownClose
  \/ PoolJoin
  \/ cl.pc = "destroy" /\ DestroyClose
  \/ cl.pc = "destroy" /\ DestroyLoadCons
  \/ cl.pc = "destroy" /\ DestroyLoadProd
  \/ cl.pc = "destroy" /\ DestroyFree
  \/ PoolShutdownReturn
  \/ \E w \in Workers : PWRecvClaim(w)
  \/ \E w \in Workers : PWRecvTake(w)
  \/ \E w \in Workers : PWRecvClosed(w)
  \/ \E w \in Workers : PWRun(w)
  \/ \E w \in Workers : PWCheck(w)
  \/ \E w \in Workers : PWCloseSenderCount(w)
  \/ \E w \in Workers : PWCloseSenderMark(w)
  \/ \E w \in Workers : PWCloseReceiverCount(w)
  \/ \E w \in Workers : PWCloseReceiverMark(w)

PSpec == PInit /\ [][PNext]_vars

\* every thread that can run does run: the threads are pthreads, each
\* scheduled by the operating system independently of the others
PFair ==
  /\ PSpec
  /\ WF_vars(PMain)
  /\ \A w \in Workers : WF_vars(PWorker(w))

(***************************************************************************)
(* The region arena by itself (r_arena.c), used by several threads at      *)
(* once: NAllocators threads call r_arena_alloc and r_arena_add, one more  *)
(* thread calls r_arena_reset.  The machine uses                           *)
(*   arena  count, current_epoch, rgs_in_use; per region the state of      *)
(*          regions_handler[r] ("NULL", "struct": the Region is malloc'ed  *)
(*          and its fields are not yet written, "data": data points to the *)
(*          calloc'ed buffer) and the region's epoch stamp (NULL while it  *)
(*          is not written)                                                *)
(*   cells  the buffers, by <<region, offset>>                             *)
(*          and, for the claims, zeroed: the memsets of the region's       *)
(*          buffer since the last r_arena_reset                            *)
(*   wk     per allocating thread: pc, op, the locals count and used       *)
(*   cl     the resetting thread's pc, the calls made so far, and overlap: *)
(*          some r_arena_reset ran while an allocation was running         *)
(*   hist   the calls that returned: thread, op, logical index, the cell   *)
(*          returned or written, whether it was zero-filled at the return, *)
(*          the epoch at the return                                        *)
(*                                                                         *)
(* The fields of a Region are plain memory.  A thread that reads           *)
(* regions_handler[r] while it is NULL dereferences a null pointer         *)
(* (aborted = "segv"); one that reads a field malloc left unwritten gets   *)
(* any value: the stamp compares equal or unequal to the epoch, the data   *)
(* pointer points outside the arena (the cell WILD).                       *)
(***************************************************************************)
Allocators == 1 .. NAllocators
RRegions == 0 .. RMaxRegions - 1
ROffsets == 0 .. RRegionCapacity - 1
RCells == RRegions \X ROffsets

\* a zero-filled element, the element the call of logical index n wrote,
\* no memory
ZERO == <<"zero", 0>>
Val(n) == <<"val", n>>
NOMEM == <<"none", 0>>

\* the stamp of a Region whose epoch field is not yet written
UNWRITTEN == 0 - 1

\* a pointer that is no cell of the arena, and the null pointer
WILD == <<RMaxRegions, 0>>
NOCELL == <<0 - 1, 0 - 1>>

\* r_arena_create(elem_size, region_capacity, max_regions)
ra_create(region_capacity, max_regions) ==
  [ rg_capacity   |-> region_capacity,
    max_rgs       |-> IF max_regions = 0 THEN 1024 ELSE max_regions,
    count         |-> 0,
    current_epoch |-> 0,
    rgs_in_use    |-> 1,
    handler       |-> [r \in RRegions |-> IF r = 0 THEN "data" ELSE "NULL"],
    epoch         |-> [r \in RRegions |-> IF r = 0 THEN 0 ELSE UNWRITTEN],
    zeroed        |-> [r \in RRegions |-> 0] ]

\* region = count / arena->rg_capacity; index = count % arena->rg_capacity
ra_region(count) == count \div arena.rg_capacity
ra_index(count) == count % arena.rg_capacity

\* if (region >= arena->max_rgs) abort();
ra_overflow(region) == region >= arena.max_rgs

\* a reset that leaves the epoch alone
ra_next_epoch_Same(epoch) == epoch

\* atomic_fetch_add(&arena->current_epoch, 1)
ra_next_epoch(epoch) == SizeAdd(epoch, 1)

\* a compare-and-swap that stores any number of regions
ra_cas_value_Beyond(region) == region + 2

\* the value the compare-and-swap stores: region + 1
ra_cas_value(region) == region + 1

\* memset(region->data, 0, ...) and calloc: the buffer of a region zeroed
ra_zero(mem, region) ==
  [c \in RCells |-> IF c[1] = region /\ c[2] < arena.rg_capacity THEN ZERO
                   ELSE mem[c]]

\* r_arena_get(arena, i)
r_arena_get(ar, i) ==
  IF i >= ar.count \/ ar.count = 0 THEN NOCELL
  ELSE <<ra_region(i), ra_index(i)>>

\* r_arena_get_last(arena)
r_arena_get_last(ar) ==
  IF ar.count = 0 THEN NOCELL
  ELSE <<ra_region(ar.count - 1), ra_index(ar.count - 1)>>

ridle == <<chan, qonly, sched, prog>>

RInit ==
  /\ chan = NULL /\ q_kind = NULL
  /\ ChannelThreadsParked
  /\ sched = NULL /\ aborted = NULL
  /\ prog = "r_arena"
  /\ \E rc \in 1 .. RRegionCapacity, mr \in 1 .. RMaxRegions :
       /\ rc * mr <= RMaxCalls
       /\ arena = ra_create(rc, mr)
       /\ cells = [c \in RCells |-> IF c[1] = 0 /\ c[2] < rc THEN ZERO
                                    ELSE NOMEM]
  /\ wk = [t \in Allocators |-> [pc |-> "idle", op |-> NULL, count |-> 0,
                                 used |-> 0]]
  /\ cl = [pc |-> "idle", nreset |-> 0, ncalls |-> 0, overlap |-> FALSE]
  /\ hist = {}

\* r_arena_alloc / r_arena_add:
\* count = atomic_fetch_add(&arena->count, 1)
RClaim(t, op) ==
  /\ aborted = NULL /\ wk[t].pc = "idle" /\ cl.ncalls < RMaxCalls
  /\ arena' = [arena EXCEPT !.count = SizeAdd(@, 1)]
  /\ wk' = [wk EXCEPT ![t].pc = "ens_load", ![t].op = op,
                      ![t].count = arena.count]
  /\ cl' = [cl EXCEPT !.ncalls = @ + 1,
                      !.overlap = @ \/ cl.pc # "idle"]
  /\ UNCHANGED <<cells, hist, aborted, ridle>>

\* _ensure_region: used = load(&arena->rgs_in_use);
\* if (region >= arena->max_rgs) abort();
REnsureAbort(t) ==
  /\ aborted = NULL /\ wk[t].pc = "ens_load"
  /\ ra_overflow(ra_region(wk[t].count))
  /\ aborted' = "abort"
  /\ UNCHANGED <<arena, cells, wk, cl, hist, ridle>>

\* used = load(&arena->rgs_in_use); the region is within max_rgs
REnsureLoad(t) ==
  /\ aborted = NULL /\ wk[t].pc = "ens_load"
  /\ ~ra_overflow(ra_region(wk[t].count))
  /\ wk' = [wk EXCEPT ![t].used = arena.rgs_in_use,
                      ![t].pc = IF ra_region(wk[t].count) < arena.rgs_in_use
                                THEN "ens_epoch" ELSE "ens_cas"]
  /\ UNCHANGED <<arena, cells, cl, hist, aborted, ridle>>

\* if (regions_handler[region]->epoch != load(&arena->current_epoch)):
\* regions_handler[region] is NULL
REnsureEpochNull(t) ==
  /\ aborted = NULL /\ wk[t].pc = "ens_epoch"
  /\ arena.handler[ra_region(wk[t].count)] = "NULL"
  /\ aborted' = "segv"
  /\ UNCHANGED <<arena, cells, wk, cl, hist, ridle>>

\* the stamp differs from the current epoch (an unwritten stamp may)
REnsureEpochStale(t) ==
  /\ aborted = NULL /\ wk[t].pc = "ens_epoch"
  /\ arena.handler[ra_region(wk[t].count)] # "NULL"
  /\ arena.epoch[ra_region(wk[t].count)] # arena.current_epoch
  /\ wk' = [wk EXCEPT ![t].pc = "ens_stamp"]
  /\ UNCHANGED <<arena, cells, cl, hist, aborted, ridle>>

\* the stamp equals the current epoch (an unwritten stamp may): return
REnsureEpochFresh(t) ==
  /\ aborted = NULL /\ wk[t].pc = "ens_epoch"
  /\ arena.handler[ra_region(wk[t].count)] # "NULL"
  /\ arena.epoch[ra_region(wk[t].count)] \in {arena.current_epoch, UNWRITTEN}
  /\ wk' = [wk EXCEPT ![t].pc = "ret"]
  /\ UNCHANGED <<arena, cells, cl, hist, aborted, ridle>>

\* regions_handler[region]->epoch = load(&arena->current_epoch)
REnsureStamp(t) ==
  /\ aborted = NULL /\ wk[t].pc = "ens_stamp"
  /\ arena' = [arena EXCEPT
                 !.epoch[ra_region(wk[t].count)] = arena.current_epoch]
  /\ wk' = [wk EXCEPT ![t].pc = "ens_zero"]
  /\ UNCHANGED <<cells, cl, hist, aborted, ridle>>

\* memset(regions_handler[region]->data, 0, rg_capacity * elem_size)
REnsureZero(t) ==
  /\ aborted = NULL /\ wk[t].pc = "ens_zero"
  /\ arena.handler[ra_region(wk[t].count)] = "data"
  /\ cells' = ra_zero(cells, ra_region(wk[t].count))
  /\ arena' = [arena EXCEPT !.zeroed[ra_region(wk[t].count)] = @ + 1]
  /\ wk' = [wk EXCEPT ![t].pc = "ret"]
  /\ UNCHANGED <<cl, hist, aborted, ridle>>

\* the memset through a data pointer that is not yet written: it faults, or
\* it zeroes memory that is no part of the arena
REnsureZeroWild(t) ==
  /\ aborted = NULL /\ wk[t].pc = "ens_zero"
  /\ arena.handler[ra_region(wk[t].count)] # "data"
  /\ \/ aborted' = "segv" /\ wk' = wk
     \/ aborted' = aborted /\ wk' = [wk EXCEPT ![t].pc = "ret"]
  /\ UNCHANGED <<arena, cells, cl, hist, ridle>>

\* atomic_compare_exchange_strong(&arena->rgs_in_use, &used, region + 1)
\* succeeds
REnsureCasWins(t) ==
  /\ aborted = NULL /\ wk[t].pc = "ens_cas"
  /\ arena.rgs_in_use = wk[t].used
  /\ arena' = [arena EXCEPT
                 !.rgs_in_use = ra_cas_value(ra_region(wk[t].count))]
  /\ wk' = [wk EXCEPT ![t].pc = "new_struct"]
  /\ UNCHANGED <<cells, cl, hist, aborted, ridle>>

\* the compare-and-swap fails
REnsureCasLoses(t) ==
  /\ aborted = NULL /\ wk[t].pc = "ens_cas"
  /\ arena.rgs_in_use # wk[t].used
  /\ wk' = [wk EXCEPT ![t].pc = "ens_wait"]
  /\ UNCHANGED <<arena, cells, cl, hist, aborted, ridle>>

\* arena->regions_handler[region] = malloc(sizeof(Region))
RNewStruct(t) ==
  /\ aborted = NULL /\ wk[t].pc = "new_struct"
  /\ arena' = [arena EXCEPT !.handler[ra_region(wk[t].count)] = "struct",
                            !.epoch[ra_region(wk[t].count)] = UNWRITTEN]
  /\ wk' = [wk EXCEPT ![t].pc = "new_data"]
  /\ UNCHANGED <<cells, cl, hist, aborted, ridle>>

\* regions_handler[region]->data = calloc(rg_capacity, elem_size)
RNewData(t) ==
  /\ aborted = NULL /\ wk[t].pc = "new_data"
  /\ arena' = [arena EXCEPT !.handler[ra_region(wk[t].count)] = "data"]
  /\ cells' = ra_zero(cells, ra_region(wk[t].count))
  /\ wk' = [wk EXCEPT ![t].pc = "new_epoch"]
  /\ UNCHANGED <<cl, hist, aborted, ridle>>

\* regions_handler[region]->epoch = load(&arena->current_epoch)
RNewEpoch(t) ==
  /\ aborted = NULL /\ wk[t].pc = "new_epoch"
  /\ arena' = [arena EXCEPT
                 !.epoch[ra_region(wk[t].count)] = arena.current_epoch]
  /\ wk' = [wk EXCEPT ![t].pc = "ret"]
  /\ UNCHANGED <<cells, cl, hist, aborted, ridle>>

\* while (load(&arena->rgs_in_use) <= region) cpu_relax();
REnsureWait(t) ==
  /\ aborted = NULL /\ wk[t].pc = "ens_wait"
  /\ arena.rgs_in_use > ra_region(wk[t].count)
  /\ wk' = [wk EXCEPT ![t].pc = "ret"]
  /\ UNCHANGED <<arena, cells, cl, hist, aborted, ridle>>

\* the record of a call that returns the cell c
RReturned(t, c) ==
  [t |-> t, op |-> wk[t].op, count |-> wk[t].count,
   cell |-> c, zero |-> (c # WILD /\ cells[c] = ZERO),
   epoch |-> arena.current_epoch]

\* r_arena_alloc: return regions_handler[region]->data + index * elem_size
\* r_arena_add: memcpy(regions_handler[region]->data + index * elem_size, val)
RReturn(t) ==
  /\ aborted = NULL /\ wk[t].pc = "ret"
  /\ arena.handler[ra_region(wk[t].count)] = "data"
  /\ LET c == <<ra_region(wk[t].count), ra_index(wk[t].count)>>
     IN  /\ hist' = hist \cup {RReturned(t, c)}
         /\ cells' = IF wk[t].op = "add"
                     THEN [cells EXCEPT ![c] = Val(wk[t].count)]
                     ELSE cells
  /\ wk' = [wk EXCEPT ![t].pc = "idle"]
  /\ UNCHANGED <<arena, cl, aborted, ridle>>

\* the same through a data pointer that is not yet written: r_arena_alloc
\* returns a pointer that is no cell of the arena, r_arena_add writes there
RReturnWild(t) ==
  /\ aborted = NULL /\ wk[t].pc = "ret"
  /\ arena.handler[ra_region(wk[t].count)] = "struct"
  /\ hist' = hist \cup {RReturned(t, WILD)}
  /\ wk' = [wk EXCEPT ![t].pc = "idle"]
  /\ UNCHANGED <<arena, cells, cl, aborted, ridle>>

\* the same with regions_handler[region] still NULL, or through a data
\* pointer that is not yet written and points to no memory
RReturnFault(t) ==
  /\ aborted = NULL /\ wk[t].pc = "ret"
  /\ arena.handler[ra_region(wk[t].count)] # "data"
  /\ aborted' = "segv"
  /\ UNCHANGED <<arena, cells, wk, cl, hist, ridle>>

\* r_arena_reset: atomic_fetch_add(&arena->current_epoch, 1)
RResetEpoch ==
  /\ aborted = NULL /\ cl.pc = "idle" /\ cl.nreset < RMaxResets
  /\ arena' = [arena EXCEPT !.current_epoch = ra_next_epoch(@),
                            !.zeroed = [r \in RRegions |-> 0]]
  /\ cl' = [cl EXCEPT !.pc = "reset_count", !.nreset = @ + 1,
                      !.overlap = @ \/ \E t \in Allocators : wk[t].pc # "idle"]
  /\ UNCHANGED <<cells, wk, hist, aborted, ridle>>

\* r_arena_reset: atomic_store(&arena->count, 0)
RResetCount ==
  /\ aborted = NULL /\ cl.pc = "reset_count"
  /\ arena' = [arena EXCEPT !.count = 0]
  /\ cl' = [cl EXCEPT !.pc = "idle"]
  /\ UNCHANGED <<cells, wk, hist, aborted, ridle>>

RNext ==
  \/ \E t \in Allocators, op \in {"alloc", "add"} : RClaim(t, op)
  \/ \E t \in Allocators : REnsureAbort(t)
  \/ \E t \in Allocators : REnsureLoad(t)
  \/ \E t \in Allocators : REnsureEpochNull(t)
  \/ \E t \in Allocators : REnsureEpochStale(t)
  \/ \E t \in Allocators : REnsureEpochFresh(t)
  \/ \E t \in Allocators : REnsureStamp(t)
  \/ \E t \in Allocators : REnsureZero(t)
  \/ \E t \in Allocators : REnsureZeroWild(t)
  \/ \E t \in Allocators : REnsureCasWins(t)
  \/ \E t \in Allocators : REnsureCasLoses(t)
  \/ \E t \in Allocators : RNewStruct(t)
  \/ \E t \in Allocators : RNewData(t)
  \/ \E t \in Allocators : RNewEpoch(t)
  \/ \E t \in Allocators : REnsureWait(t)
  \/ \E t \in Allocators : RReturn(t)
  \/ \E t \in Allocators : RReturnWild(t)
  \/ \E t \in Allocators : RReturnFault(t)
  \/ RResetEpoch
  \/ RResetCount

RSpec == RInit /\ [][RNext]_vars

(***************************************************************************)
(* The flat arena (arena.c), used by one thread: a run creates the arena   *)
(* with some starting capacity and preference and then calls arena_add,    *)
(* arena_alloc, arena_pop, arena_get, arena_get_last and arena_reset.      *)
(*   arena  preference, capacity, count                                    *)
(*   cells  the memory at data + i * elem_size, i in ASlots: slots below   *)
(*          capacity are the buffer (GARBAGE while unwritten, as malloc    *)
(*          and realloc leave them), slots from capacity on lie behind it  *)
(*   cl     the last call: op, its return value ret, the element arena_pop *)
(*          copied out, the slot a returned pointer points to, and the     *)
(*          number n of calls made                                         *)
(*   hist   for the claims: the elements a stack would hold after the same *)
(*          calls (arena_add and arena_alloc push, arena_pop pops,         *)
(*          arena_reset empties)                                           *)
(* A memcpy to a slot behind the buffer is undefined: the bytes land       *)
(* there, or the memory holds something else afterwards, or the call       *)
(* faults (aborted = "segv").                                              *)
(***************************************************************************)
DYNAMIC == "DYNAMIC"
FIXED == "FIXED"
ASlots == 0 .. AMaxOps
AVals == {Val(n) : n \in 1 .. AMaxVal}
GARBAGE == <<"garbage", 0>>
NOSLOT == 0 - 1
NORET == 0 - 1

\* a.capacity = starting_capacity == 0 ? 8 : starting_capacity
DefaultCapacity == 8
arena_create(starting_capacity, preference) ==
  [ preference |-> preference,
    capacity   |-> IF starting_capacity = 0 THEN DefaultCapacity
                   ELSE starting_capacity,
    count      |-> 0 ]

\* an arena_add that never refuses
add_refused_Never(a) == FALSE

\* arena_add: count == capacity and preference == FIXED: return 2
add_refused(a) == a.count = a.capacity /\ a.preference = FIXED

\* size_t new_cap = arena->capacity * 1.5;
new_cap(capacity) == (capacity * 3) \div 2

\* arena_get(arena, i) and arena_get_last(arena): the slot pointed to
arena_get(a, i) == IF i >= a.count \/ a.count = 0 THEN NOSLOT ELSE i
arena_get_last(a) == IF a.count = 0 THEN NOSLOT ELSE a.count - 1

\* arena_pop: atomic_fetch_sub(&arena->count, 1)
pop_count(count) == SizeSub(count, 1)

\* the memory after realloc to capacity n: the new slots are unwritten
Realloc(mem, old, n) ==
  [i \in ASlots |-> IF old <= i /\ i < n THEN GARBAGE ELSE mem[i]]

aidle == <<chan, qonly, sched, wk, prog>>

Called(op, ret, out, ptr) ==
  [op |-> op, ret |-> ret, out |-> out, ptr |-> ptr, n |-> cl.n + 1]

AInit ==
  /\ chan = NULL /\ q_kind = NULL
  /\ ChannelThreadsParked
  /\ sched = NULL /\ aborted = NULL /\ wk = NULL
  /\ prog = "arena"
  /\ \E c \in 0 .. AMaxCap, p \in {DYNAMIC, FIXED} :
       /\ arena = arena_create(c, p)
       /\ cells = [i \in ASlots |->
                     IF i < arena_create(c, p).capacity THEN GARBAGE
                     ELSE NOMEM]
  /\ cl = [op |-> "create", ret |-> NORET, out |-> NOMEM, ptr |-> NOSLOT,
           n |-> 0]
  /\ hist = <<>>

ACall == aborted = NULL /\ cl.n < AMaxOps

\* arena_add on a full FIXED arena: return 2
ArenaAddRefused(v) ==
  /\ ACall /\ add_refused(arena)
  /\ cl' = Called("add", 2, NOMEM, NOSLOT)
  /\ UNCHANGED <<arena, cells, hist, aborted, aidle>>

\* arena_add on a full DYNAMIC arena, realloc fails: return 3
ArenaAddNoMemory(v) ==
  /\ ACall /\ arena.count = arena.capacity /\ ~add_refused(arena)
  /\ cl' = Called("add", 3, NOMEM, NOSLOT)
  /\ UNCHANGED <<arena, cells, hist, aborted, aidle>>

\* the capacity and the memory arena_add stores with: after the realloc when
\* count == capacity, as they are otherwise
AddCapacity == IF arena.count = arena.capacity THEN new_cap(arena.capacity)
               ELSE arena.capacity
AddMemory == IF arena.count = arena.capacity
             THEN Realloc(cells, arena.capacity, new_cap(arena.capacity))
             ELSE cells

\* arena_add: (realloc when full;) count = fetch_add(&arena->count, 1);
\* memcpy(data + count * elem_size, val); return 0
ArenaAddStore(v) ==
  /\ ACall /\ ~add_refused(arena)
  /\ arena.count < AddCapacity
  /\ arena' = [arena EXCEPT !.capacity = AddCapacity,
                            !.count = SizeAdd(@, 1)]
  /\ cells' = [AddMemory EXCEPT ![arena.count] = v]
  /\ hist' = Append(hist, v)
  /\ cl' = Called("add", 0, NOMEM, NOSLOT)
  /\ UNCHANGED <<aborted, aidle>>

\* the same with the slot count behind the buffer
ArenaAddBeyond(v) ==
  /\ ACall /\ ~add_refused(arena)
  /\ arena.count >= AddCapacity
  /\ \/ /\ arena' = [arena EXCEPT !.capacity = AddCapacity,
                                  !.count = SizeAdd(@, 1)]
        /\ \E w \in {v, GARBAGE} :
             cells' = [AddMemory EXCEPT ![arena.count] = w]
        /\ hist' = Append(hist, v)
        /\ cl' = Called("add", 0, NOMEM, NOSLOT)
        /\ aborted' = aborted
     \/ /\ aborted' = "segv"
        /\ UNCHANGED <<arena, cells, hist, cl>>
  /\ UNCHANGED aidle

\* arena_alloc, index < capacity: index = fetch_add(&arena->count, 1);
\* memset(data + index * elem_size, 0); return the slot
ArenaAlloc ==
  /\ ACall /\ arena.count < arena.capacity
  /\ arena' = [arena EXCEPT !.count = SizeAdd(@, 1)]
  /\ cells' = [cells EXCEPT ![arena.count] = ZERO]
  /\ hist' = Append(hist, ZERO)
  /\ cl' = Called("alloc", NORET, NOMEM, arena.count)
  /\ UNCHANGED <<aborted, aidle>>

\* arena_alloc, index >= capacity: fetch_sub(&arena->count, 1);
\* arena_reset(arena); memset(data, 0); return data
ArenaAllocOverflow ==
  /\ ACall /\ arena.count >= arena.capacity
  /\ arena' = [arena EXCEPT !.count = 0]
  /\ cells' = [cells EXCEPT ![0] = ZERO]
  /\ hist' = <<>>
  /\ cl' = Called("alloc_reset", NORET, NOMEM, 0)
  /\ UNCHANGED <<aborted, aidle>>

\* arena_pop on an empty arena: return 0
ArenaPopEmpty ==
  /\ ACall /\ arena.count = 0
  /\ cl' = Called("pop", 0, NOMEM, NOSLOT)
  /\ UNCHANGED <<arena, cells, hist, aborted, aidle>>

\* arena_pop: old = fetch_sub(&arena->count, 1);
\* memcpy(out, data + (old - 1) * elem_size); return 1
ArenaPop ==
  /\ ACall /\ arena.count # 0
  /\ arena' = [arena EXCEPT !.count = pop_count(@)]
  /\ hist' = SubSeq(hist, 1, Len(hist) - 1)
  /\ cl' = Called("pop", 1, cells[arena.count - 1], NOSLOT)
  /\ UNCHANGED <<cells, aborted, aidle>>

\* arena_get(arena, i)
ArenaGet(i) ==
  /\ ACall
  /\ cl' = Called("get", NORET, NOMEM, arena_get(arena, i))
  /\ UNCHANGED <<arena, cells, hist, aborted, aidle>>

\* arena_get_last(arena)
ArenaGetLast ==
  /\ ACall
  /\ cl' = Called("get_last", NORET, NOMEM, arena_get_last(arena))
  /\ UNCHANGED <<arena, cells, hist, aborted, aidle>>

\* arena_reset: atomic_store(&arena->count, 0)
ArenaReset ==
  /\ ACall
  /\ arena' = [arena EXCEPT !.count = 0]
  /\ hist' = <<>>
  /\ cl' = Called("reset", NORET, NOMEM, NOSLOT)
  /\ UNCHANGED <<cells, aborted, aidle>>

ANext ==
  \/ \E v \in AVals : ArenaAddRefused(v)
  \/ \E v \in AVals : ArenaAddNoMemory(v)
  \/ \E v \in AVals : ArenaAddStore(v)
  \/ \E v \in AVals : ArenaAddBeyond(v)
  \/ ArenaAlloc
  \/ ArenaAllocOverflow
  \/ ArenaPopEmpty
  \/ ArenaPop
  \/ \E i \in ASlots : ArenaGet(i)
  \/ ArenaGetLast
  \/ ArenaReset

ASpec == AInit /\ [][ANext]_vars

(***************************************************************************)
(* The wait group (waitg.c): one atomic counter.  A run creates it with    *)
(* wg_init(initial); one thread registers work with wg_add(n), the work    *)
(* units call wg_done, each once and only after it was registered (by      *)
(* wg_init or by a wg_add that returned), and one thread calls wg_wait.    *)
(*   sched  the WaitGroup: count                                           *)
(*   cl     the registering thread: the wg_add calls made                  *)
(*   wk     the waiting thread: pc                                         *)
(*   hist   for the claims: the initial value, the sum of the amounts      *)
(*          added and the number of wg_done calls                          *)
(***************************************************************************)
\* wg_init: atomic_init(&wg.count, initial)
wg_init(initial) == [count |-> initial]

\* wg_add: atomic_fetch_add(&wg->count, n)
wg_add(wg, n) == [wg EXCEPT !.count = SizeAdd(@, n)]

\* wg_done: atomic_fetch_sub(&wg->count, 1)
wg_done(wg) == [wg EXCEPT !.count = SizeSub(@, 1)]

\* a wait loop that ends whatever it loads
wg_wait_over_Always(count) == TRUE

\* wg_wait: the loop ends when load(&wg->count) != 0 is false
wg_wait_over(count) == count = 0

widle == <<chan, qonly, arena, cells, prog, aborted>>

WInit ==
  /\ chan = NULL /\ q_kind = NULL
  /\ ChannelThreadsParked
  /\ arena = NULL /\ cells = NULL /\ aborted = NULL
  /\ prog = "waitg"
  /\ \E initial \in 0 .. WMaxInitial :
       /\ sched = wg_init(initial)
       /\ hist = [initial |-> initial, added |-> 0, dones |-> 0]
  /\ cl = [nadd |-> 0]
  /\ wk = [pc |-> "idle"]

\* wg_add(&wg, n)
WgAdd(n) ==
  /\ cl.nadd < WMaxAdds
  /\ sched' = wg_add(sched, n)
  /\ cl' = [cl EXCEPT !.nadd = @ + 1]
  /\ hist' = [hist EXCEPT !.added = @ + n]
  /\ UNCHANGED <<wk, widle>>

\* wg_done(&wg), by a work unit that was registered and has not called it
WgDone ==
  /\ hist.dones < hist.initial + hist.added
  /\ sched' = wg_done(sched)
  /\ hist' = [hist EXCEPT !.dones = @ + 1]
  /\ UNCHANGED <<cl, wk, widle>>

\* wg_wait(&wg) is called
WgWaitCall ==
  /\ wk.pc = "idle"
  /\ wk' = [wk EXCEPT !.pc = "waiting"]
  /\ UNCHANGED <<sched, cl, hist, widle>>

\* wg_wait: the load that ends the loop; the call returns.  A load that
\* does not end it leaves every variable as it is.
WgWaitReturn ==
  /\ wk.pc = "waiting"
  /\ wg_wait_over(sched.count)
  /\ wk' = [wk EXCEPT !.pc = "returned"]
  /\ UNCHANGED <<sched, cl, hist, widle>>

WNext ==
  \/ \E n \in 1 .. WMaxAmount : WgAdd(n)
  \/ WgDone
  \/ WgWaitCall
  \/ WgWaitReturn

WSpec == WInit /\ [][WNext]_vars

\* every registered work unit finishes and calls wg_done, and the waiting
\* thread keeps running
WFair == WSpec /\ WF_vars(WgDone) /\ WF_vars(WgWaitReturn)

(***************************************************************************)
(* The fixed stack (stack.c), used by one thread.  The stack grows down    *)
(* from the end of the buffer: sp is modelled as the element index it      *)
(* points to, from 0 (items) to cap (one past the end).                    *)
(*   arena  the Stack: cap, count, sp                                      *)
(*   cells  the memory at items + i * elem_size, for i in SSlots: slots    *)
(*          0 .. cap - 1 are the buffer, slot -1 lies in front of it       *)
(*   cl     the last call: op, return value, the element stack_pop copied  *)
(*          out, and the number n of calls made                            *)
(* A memcpy to a slot in front of the buffer is undefined: the bytes land  *)
(* there, or the call faults (aborted = "segv").                           *)
(***************************************************************************)
SSlots == (0 - 1) .. SMaxCap - 1

\* stack_new(elem_size, cap)
stack_new(cap) == [cap |-> cap, count |-> 0, sp |-> cap]

\* a stack_push that refuses at count == cap
stack_full_AtCap(s) == s.count >= s.cap

\* stack_push: if (!s->items || s->count > s->cap) return -1;
stack_full(s) == s.count > s.cap

\* stack_pop: if (!s->items || s->count == 0) return -1;
stack_empty(s) == s.count = 0

sidle == <<chan, qonly, sched, wk, prog, hist>>

SCalled(op, ret, out) == [op |-> op, ret |-> ret, out |-> out, n |-> cl.n + 1]

SInit ==
  /\ chan = NULL /\ q_kind = NULL
  /\ ChannelThreadsParked
  /\ sched = NULL /\ wk = NULL /\ hist = NULL /\ aborted = NULL
  /\ prog = "stack"
  /\ \E cap \in 1 .. SMaxCap :
       /\ arena = stack_new(cap)
       /\ cells = [i \in SSlots |-> IF 0 <= i /\ i < cap THEN GARBAGE
                                    ELSE NOMEM]
  /\ cl = [op |-> "new", ret |-> 0, out |-> NOMEM, n |-> 0]

SCall == aborted = NULL /\ cl.n < SMaxOps

\* stack_push refuses: return -1
StackPushRefused(v) ==
  /\ SCall /\ stack_full(arena)
  /\ cl' = SCalled("push", 0 - 1, NOMEM)
  /\ UNCHANGED <<arena, cells, aborted, sidle>>

\* stack_push: s->sp -= elem_size; memcpy(s->sp, elem); s->count++; return 0
StackPush(v) ==
  /\ SCall /\ ~stack_full(arena)
  /\ arena.sp - 1 >= 0
  /\ arena' = [arena EXCEPT !.sp = @ - 1, !.count = @ + 1]
  /\ cells' = [cells EXCEPT ![arena.sp - 1] = v]
  /\ cl' = SCalled("push", 0, NOMEM)
  /\ UNCHANGED <<aborted, sidle>>

\* the same with sp - elem_size in front of the buffer
StackPushBeyond(v) ==
  /\ SCall /\ ~stack_full(arena)
  /\ arena.sp - 1 < 0
  /\ \/ /\ arena' = [arena EXCEPT !.sp = @ - 1, !.count = @ + 1]
        /\ cells' = [cells EXCEPT ![arena.sp - 1] = v]
        /\ cl' = SCalled("push", 0, NOMEM)
        /\ aborted' = aborted
     \/ /\ aborted' = "segv"
        /\ UNCHANGED <<arena, cells, cl>>
  /\ UNCHANGED sidle

\* stack_pop on an empty stack: return -1
StackPopEmpty ==
  /\ SCall /\ stack_empty(arena)
  /\ cl' = SCalled("pop", 0 - 1, NOMEM)
  /\ UNCHANGED <<arena, cells, aborted, sidle>>

\* stack_pop: memcpy(out, s->sp); s->sp += elem_size; s->count--; return 0
StackPop ==
  /\ SCall /\ ~stack_empty(arena)
  /\ arena' = [arena EXCEPT !.sp = @ + 1, !.count = @ - 1]
  /\ cl' = SCalled("pop", 0, cells[arena.sp])
  /\ UNCHANGED <<cells, aborted, sidle>>

\* stack_reset: s->count = 0; s->sp = items + elem_size * cap
StackReset ==
  /\ SCall
  /\ arena' = [arena EXCEPT !.count = 0, !.sp = arena.cap]
  /\ cl' = SCalled("reset", 0, NOMEM)
  /\ UNCHANGED <<cells, aborted, sidle>>

SNext ==
  \/ \E v \in AVals : StackPushRefused(v)
  \/ \E v \in AVals : StackPush(v)
  \/ \E v \in AVals : StackPushBeyond(v)
  \/ StackPopEmpty
  \/ StackPop
  \/ StackReset

SSpec == SInit /\ [][SNext]_vars

(***************************************************************************)
(* Claims about the channels.                                              *)
(***************************************************************************)
SentPositions == {s[1] : s \in q_sent}
RcvdPositions == {r[1] : r \in q_rcvd}

\* positions whose send returned CHANNEL_OK and whose recv has not
Unconsumed == SentPositions \ RcvdPositions

MpmcOpen == q_kind = "mpmc" /\ chan.capacity >= 2 /\ chan.state = OPEN

\* every claimed receive position has been served and none is left to claim
Drained ==
  /\ \A c \in Consumers(q_kind) : q_pc[c] = "idle"
  /\ chan.tail = chan.head

\* C1: on an OPEN MPMC channel of capacity >= 2, every element a successful
\* recv returned is the element one successful send wrote (at the position
\* the recv claimed), no position is published twice, no element is returned
\* by two recv calls, received <= sent, and received = sent once the channel
\* is drained.
C1_MpmcDelivery ==
  MpmcOpen =>
    /\ \A r \in q_rcvd : <<r[1], r[2]>> \in q_sent
    /\ \A s1, s2 \in q_sent : (s1[1] = s2[1] \/ s1[2] = s2[2]) => s1 = s2
    /\ \A r1, r2 \in q_rcvd : (r1[1] = r2[1] \/ r1[2] = r2[2]) => r1 = r2
    /\ Cardinality(q_rcvd) <= Cardinality(q_sent)
    /\ Drained => Cardinality(q_rcvd) = Cardinality(q_sent)

\* both producers sent, both consumers received, a slot was used twice, and
\* the channel is drained
C1_Witness ==
  /\ MpmcOpen /\ Drained
  /\ Cardinality(q_rcvd) > chan.capacity
  /\ {s[2][1] : s \in q_sent} = {"p1", "p2"}
  /\ {r[3] : r \in q_rcvd} = {"c1", "c2"}

\* C10: for every capacity >= 1 and each of MPSC, SPMC and MPMC, a send
\* never writes a slot that holds a published, unconsumed element, and the
\* published-but-unconsumed elements never outnumber the capacity.
C10_NoOverwrite ==
  /\ Cardinality(Unconsumed) <= chan.capacity
  /\ \A p \in Producers(q_kind) :
       q_pc[p] = "publish" =>
         \A u \in Unconsumed : SlotOf(chan, u) # SlotOf(chan, q_pos[p])

\* producers that hold a claimed position inside send
InFlightSends == {p \in Producers(q_kind) : q_pc[p] \in {"spin", "publish"}}

\* consumers that hold a claimed position inside spmc_recv / mpmc_recv
InFlightRecvs == {c \in Consumers(q_kind) : q_pc[c] \in {"spin", "rearm"}}

\* no send or recv call is in progress
AllIdle == \A t \in Producers(q_kind) \cup Consumers(q_kind) : q_pc[t] = "idle"

\* the next recv call would find the slot of its position unpublished
NothingToReceive ==
  ~RecvSeqReady(chan.seq[SlotOf(chan, chan.tail)], chan.tail)

\* C11: a call that returns an error leaves the queue as it was: every
\* position taken from the producer cursor belongs to a send that returned
\* CHANNEL_OK or is still in progress, and likewise for the consumer cursor.
C11_ErrorLeavesQueue ==
  /\ chan.head = Cardinality(q_sent) + Cardinality(InFlightSends)
  /\ chan.tail = Cardinality(q_rcvd) + Cardinality(InFlightRecvs)

\* C12: after close the receivers drain the queue: once the channel is
\* CLOSED, no call is in progress and recv has nothing more to return, every
\* element whose send returned CHANNEL_OK has been delivered, to one recv.
C12_Drain ==
  (chan.state = CLOSED /\ AllIdle /\ NothingToReceive) =>
    /\ SentPositions \subseteq RcvdPositions
    /\ \A r1, r2 \in q_rcvd : r1[1] = r2[1] => r1 = r2

\* C13: the state never goes back from CLOSED to OPEN, and a send that
\* starts while the channel is CLOSED returns CHANNEL_ERR_CLOSED at once:
\* it claims no position and changes nothing of the channel.
C13_ClosedRefusesSend ==
  [][ /\ chan.state = CLOSED => chan'.state = CLOSED
      /\ (chan.state = CLOSED /\ q_nsend' # q_nsend) =>
           /\ chan' = chan /\ q_pc' = q_pc /\ q_sent' = q_sent
           /\ \E p \in Producers(q_kind) :
                /\ q_ret'[p] = CHANNEL_ERR_CLOSED
                /\ \A t \in QThreads \ {p} : q_ret'[t] = q_ret[t] ]_vars

\* a send was refused on entry (a call was begun that took no position),
\* after other sends had succeeded
C13_Witness ==
  /\ chan.state = CLOSED /\ AllIdle
  /\ q_nsend > chan.head /\ q_sent # {}
  /\ \E p \in Producers(q_kind) : q_ret[p] = CHANNEL_ERR_CLOSED

\* C14: after close no call spins forever: while the channel is CLOSED every
\* thread inside send or recv can take its next step by itself (and a call
\* has at most three steps, none of which goes back).
C14_NoSpinAfterClose ==
  chan.state = CLOSED =>
    /\ \A p \in Producers(q_kind) :
         q_pc[p] # "idle" => ENABLED (Send(p) \/ SpscSend(p))
    /\ \A c \in Consumers(q_kind) :
         q_pc[c] # "idle" => ENABLED (Recv(c) \/ MpscRecv(c) \/ SpscRecv(c))

\* the channel is closed while a producer waits for a slot to be consumed
\* and a consumer waits for a slot to be published
C14_Witness ==
  /\ chan.state = CLOSED
  /\ \E p \in Producers(q_kind) :
       /\ q_pc[p] = "spin"
       /\ ~SendSeqReady(chan.seq[SlotOf(chan, q_pos[p])], q_pos[p])
  /\ \E c \in Consumers(q_kind) :
       /\ q_pc[c] = "spin"
       /\ ~RecvSeqReady(chan.seq[SlotOf(chan, q_pos[c])], q_pos[c])

\* C15: the consumer of an MPSC queue receives the positions in order, at
\* each position the element of the send that claimed it, and so the
\* elements of one producer in the order that producer sent them.
C15_MpscFifo ==
  q_kind = "mpsc" =>
    /\ RcvdPositions = 0 .. Cardinality(q_rcvd) - 1
    /\ \A r \in q_rcvd : <<r[1], r[2]>> \in q_sent
    /\ \A r1, r2 \in q_rcvd :
         (r1[2][1] = r2[2][1] /\ r1[2][2] < r2[2][2]) => r1[1] < r2[1]

\* C16: for one producer and one consumer the SPSC queue is a bounded FIFO:
\* spsc_recv returns the accepted elements in the order spsc_try_send
\* accepted them, 0 <= head - tail <= capacity always, neither call blocks,
\* spsc_try_send answers ERR_FULL exactly when head - tail == capacity and
\* spsc_recv answers ERR_EMPTY exactly when tail == head.
C16_SpscFifo ==
  /\ [](q_kind = "spsc" =>
          /\ RcvdPositions = 0 .. Cardinality(q_rcvd) - 1
          /\ \A r \in q_rcvd : <<r[1], r[2]>> \in q_sent
          /\ SizeSub(chan.head, chan.tail) \in 0 .. chan.capacity
          /\ \A p \in Producers(q_kind) :
               q_pc[p] # "idle" => ENABLED SpscSend(p)
          /\ \A c \in Consumers(q_kind) :
               q_pc[c] # "idle" => ENABLED SpscRecv(c))
  /\ [][q_kind = "spsc" =>
          /\ \A p \in Producers(q_kind) :
               (q_pc[p] = "spsc_load" /\ q_pc'[p] # "spsc_load") =>
                 (q_ret'[p] = CHANNEL_ERR_FULL
                    <=> SizeSub(chan.head, chan.tail) = chan.capacity)
          /\ \A c \in Consumers(q_kind) :
               (q_pc[c] = "idle" /\ (q_ret'[c] # q_ret[c] \/ q_pc'[c] # "idle")) =>
                 (q_ret'[c] = CHANNEL_ERR_EMPTY <=> chan.tail = chan.head)]_vars

\* the queues with sequence numbers
Sequenced == q_kind \in {"mpsc", "spmc", "mpmc"}

\* producers between the sequence check of send and the store that publishes,
\* consumers between the sequence check of recv and the store that re-arms
Writing(i) ==
  {p \in Producers(q_kind) : q_pc[p] = "publish" /\ SlotOf(chan, q_pos[p]) = i}
Reading(i) ==
  {c \in Consumers(q_kind) :
     q_pc[c] \in {"rearm", "mpsc_rearm"} /\ SlotOf(chan, q_pos[c]) = i}

\* C33: in the MPSC, SPMC and MPMC queues, also with a concurrent close, at
\* most one thread is between the sequence check and the publishing store on
\* any slot: never two producers, never two consumers, never a producer and
\* a consumer; and no position is written by two sends or read by two recvs.
C33_SlotExclusive ==
  Sequenced =>
    /\ \A i \in 0 .. chan.capacity - 1 :
         Cardinality(Writing(i)) + Cardinality(Reading(i)) <= 1
    /\ \A s1, s2 \in q_sent : s1[1] = s2[1] => s1 = s2
    /\ \A r1, r2 \in q_rcvd : r1[1] = r2[1] => r1 = r2

\* C37: in the MPSC, SPMC and MPMC queues of capacity c the sequence of slot
\* i starts at i and changes only from p to p + 1 (the send at position p)
\* and from p + 1 to p + c (the recv at position p), for positions p of that
\* slot: it never decreases, a send that publishes p + 1 found p, and a recv
\* that publishes p + c found p + 1.
C37_SequenceProtocol ==
  [][Sequenced =>
       \A i \in 0 .. chan.capacity - 1 :
         chan'.seq[i] # chan.seq[i] =>
           /\ chan'.seq[i] > chan.seq[i]
           /\ \E p \in 0 .. MaxSends + MaxRecvs :
                /\ SlotOf(chan, p) = i
                /\ \/ chan.seq[i] = p /\ chan'.seq[i] = p + 1
                   \/ chan.seq[i] = p + 1 /\ chan'.seq[i] = p + chan.capacity]_vars

\* the step is one of the consumer c inside or into mpsc_recv
MpscStep(c) == q_pc'[c] # q_pc[c] \/ q_ret'[c] # q_ret[c]

\* C38: mpsc_recv never blocks: inside the call the consumer always has a
\* step; a call that returns ERR_EMPTY (tail == head, or the slot at tail not
\* published) leaves tail and the slots unchanged; a call that returns OK has
\* copied the element sent at position tail, sets that slot's sequence to
\* tail + capacity and advances tail by exactly 1; and tail <= head always.
C38_MpscRecvNeverBlocks ==
  /\ [](q_kind = "mpsc" =>
          /\ chan.tail <= chan.head
          /\ \A c \in Consumers(q_kind) :
               q_pc[c] # "idle" => ENABLED MpscRecv(c))
  /\ [][q_kind = "mpsc" =>
          \A c \in Consumers(q_kind) :
            /\ (MpscStep(c) /\ q_ret'[c] = CHANNEL_ERR_EMPTY) =>
                 /\ chan' = chan
                 /\ \/ chan.tail = chan.head
                    \/ ~RecvSeqReady(chan.seq[SlotOf(chan, chan.tail)], chan.tail)
            /\ (MpscStep(c) /\ q_ret'[c] = CHANNEL_OK) =>
                 /\ <<chan.tail, q_elem[c]>> \in q_sent
                 /\ chan'.seq[SlotOf(chan, chan.tail)] =
                      SizeAdd(chan.tail, chan.capacity)
                 /\ chan'.tail = SizeAdd(chan.tail, 1)
                 /\ chan'.head = chan.head /\ chan'.data = chan.data]_vars

(***************************************************************************)
(* Claims about the handles.                                               *)
(***************************************************************************)
\* the handles close has been called on (the counter is decremented first,
\* the handle's own state follows)
SendersClosed ==
  {p \in Producers(q_kind) :
     hnd.sender[p] = CLOSED \/ (hnd.sender[p] = OPEN /\ q_pc[p] = "close_mark")}
ReceiversClosed ==
  {c \in Consumers(q_kind) :
     hnd.receiver[c] = CLOSED
       \/ (hnd.receiver[c] = OPEN /\ q_pc[c] = "close_mark")}
SendersObtained == {p \in Producers(q_kind) : hnd.sender[p] # NULL}
ReceiversObtained == {c \in Consumers(q_kind) : hnd.receiver[c] # NULL}

\* C17: a send through a sender handle that mpmc_close_sender /
\* mpsc_close_sender has closed returns CHANNEL_ERR_CLOSED and enqueues
\* nothing, also while the channel is OPEN.
C17_ClosedSenderRefuses ==
  [][(TracksProd(q_kind) /\ q_nsend' # q_nsend) =>
       \E p \in Producers(q_kind) :
         /\ \A t \in QThreads \ {p} : q_pc'[t] = q_pc[t] /\ q_ret'[t] = q_ret[t]
         /\ hnd.sender[p] = CLOSED =>
              /\ q_ret'[p] = CHANNEL_ERR_CLOSED
              /\ q_pc'[p] = "idle"
              /\ chan' = chan]_vars

\* C18: a recv through a receiver handle that mpmc_close_receiver /
\* spmc_close_receiver has closed returns CHANNEL_ERR_CLOSED and claims no
\* consumer position, also while the channel is OPEN and holds elements.
C18_ClosedReceiverRefuses ==
  [][TracksCons(q_kind) =>
       /\ \A c \in Consumers(q_kind) :
            hnd.receiver[c] = CLOSED =>
              hnd'.receiver[c] = CLOSED /\ q_pc[c] = "idle" /\ q_pc'[c] = "idle"
       /\ q_nrecv' # q_nrecv =>
            \E c \in Consumers(q_kind) :
              /\ \A t \in QThreads \ {c} :
                   q_pc'[t] = q_pc[t] /\ q_ret'[t] = q_ret[t]
              /\ hnd.receiver[c] = CLOSED =>
                   /\ q_ret'[c] = CHANNEL_ERR_CLOSED
                   /\ chan' = chan]_vars

\* a recv through a closed receiver has returned CHANNEL_ERR_CLOSED while
\* the channel was OPEN and held a published element
C18_Witness ==
  \E c \in Consumers(q_kind) :
    /\ TracksCons(q_kind)
    /\ hnd.receiver[c] = CLOSED /\ q_ret[c] = CHANNEL_ERR_CLOSED
    /\ chan.state = OPEN
    /\ chan.tail = 0 /\ q_nrecv > 0
    /\ RecvSeqReady(chan.seq[SlotOf(chan, chan.tail)], chan.tail)

ShutdownCalled == cl.pc \in {"sd_mark", "sd_close", "join", "destroy", "done"}
ShutdownReturned == cl.pc = "done"

\* C20: threadpool_shutdown terminates when every job function returns:
\* once it is called, every worker leaves its loop and closes its sender
\* and receiver, the joins return, both counters reach 0, mpmc_destroy
\* returns and with it threadpool_shutdown.
C20_ShutdownTerminates ==
  /\ ShutdownCalled ~> ShutdownReturned
  /\ [](ShutdownReturned =>
          /\ \A w \in Workers : wk[w].pc = "exited"
          /\ \A w \in Workers :
               hnd.sender[w] = CLOSED /\ hnd.receiver[w] = CLOSED
          /\ hnd.sender[Dispatcher] = CLOSED
          /\ hnd.prod_cont = 0 /\ hnd.cons_cont = 0
          /\ hnd.freed)

\* shutdown has returned after all the jobs main() could submit were run
\* and a worker was met by the close inside mpmc_recv
C20_Witness ==
  /\ prog = "pool"
  /\ ShutdownReturned
  /\ cl.n = NPoolJobs
  /\ \A j \in PoolJobs : hist[j] = 1
  /\ chan.tail > chan.head

(***************************************************************************)
(* Claims about the job scheduler.                                         *)
(***************************************************************************)
\* the history of the k-th handle main() spawned
JobHist(k) == hist[cl.jobs[k].sid]

\* no thread can take a step, and the process has not died
Stuck == Alive /\ ~ENABLED Next

\* the handle was allocated in an arena epoch that is over
Stale(job) == hist[job.sid].epoch # arena.current_epoch

\* program points at which a worker dereferences wk[w].job
DerefJobPcs == {"assert", "check", "running", "dec_unf", "read_cont"}

\* program points at which a worker dereferences wk[w].cont
DerefContPcs == {"dec_cont", "sched_load"}

\* job_spawn has passed the gate and has not returned
PastGate == cl.pc \in {"sp_inc", "sp_alloc", "sp_region", "sp_init"}

\* job_spawn has incremented active_jobs and has not returned
MidSpawn == cl.pc \in {"sp_alloc", "sp_region", "sp_init"}

\* an unfinished counter that went below 0 (size_t wrapped)
BelowZero(unfinished) == unfinished > SizeMax \div 2

\* C2: in a chain wired by one job_chain_arr call, the function of j_k has
\* returned before the function of j_(k+1) is invoked, for every k.
C2_ChainOrder ==
  prog = "chain" =>
    \A k \in 1 .. Len(cl.jobs) - 1 :
      JobHist(k + 1).started > 0 => JobHist(k).returned > 0

\* the whole chain has run, on more than one worker
C2_Witness ==
  /\ prog = "chain"
  /\ Len(cl.jobs) = NChain
  /\ \A k \in 1 .. NChain : JobHist(k).returned = 1
  /\ JobHist(1).by # JobHist(2).by

\* C3: every handle that was spawned and submitted is eventually executed:
\* when no thread can take a further step (and the process is alive), every
\* submitted handle has been invoked.
C3_SubmittedRuns ==
  Stuck => \A k \in DOMAIN hist : hist[k].submitted => hist[k].started > 0

\* C4: a reset that was started by storing accepting_jobs = 0 eventually
\* completes: when no thread can take a further step, no worker is inside
\* _job_scheduler_reset and accepting_jobs is 1.
C4_ResetCompletes ==
  Stuck =>
    /\ sched.accepting_jobs = 1
    /\ \A w \in Workers : wk[w].pc # "reset_wait"

\* C5: every handle is executed at most once, its unfinished counter never
\* goes below 0, and active_jobs is decremented at most once per handle, for
\* independent jobs and for the benchmark's job_then chains.
C5_AtMostOnce ==
  prog \in {"indep", "bench"} =>
    /\ \A k \in DOMAIN hist : hist[k].started <= 1 /\ hist[k].actdec <= 1
    /\ \A c \in Cells : ~BelowZero(cells[c].unfinished)

\* C6: for every job_then(first, then) of the benchmark, `then` is invoked
\* only after `first` has returned, and it is eventually invoked: when no
\* thread can take a further step, every `then` has been invoked.
C6_ThenRuns ==
  prog = "bench" =>
    /\ \A k \in 1 .. Len(cl.jobs) - 1 :
         JobHist(k + 1).started > 0 => JobHist(k).returned > 0
    /\ (Stuck /\ cl.step = Len(Script(prog))) =>
         \A k \in 2 .. Len(cl.jobs) : JobHist(k).started > 0

\* C7: when the arena is reset no handle of the epoch is unfinished and no
\* job_spawn caller is past the gate, and no worker dereferences a handle of
\* an earlier epoch.
C7_ResetSafe ==
  /\ \A w \in Workers :
       wk[w].pc = "reset_count" =>
         /\ ~PastGate
         /\ \A k \in DOMAIN hist :
              hist[k].epoch = SizeSub(arena.current_epoch, 1)
                => hist[k].returned > 0
  /\ \A w \in Workers :
       /\ wk[w].pc \in DerefJobPcs => ~Stale(wk[w].job)
       /\ wk[w].pc \in DerefContPcs => ~Stale(wk[w].cont)

\* C8: the handles allocated in one epoch never exceed max_jobs, and the
\* region arena's abort() is never reached.
C8_NoArenaAbort ==
  /\ aborted # "abort"
  /\ arena.count <= JOB_SCHEDULER_MAX_JOBS

\* C9: active_jobs equals the number of handles whose execution has not
\* finished (a job_spawn in progress counted), and when every spawned job has
\* been submitted, main() has returned to the top level and no thread can
\* take a further step, active_jobs is 0.
C9_ActiveJobs ==
  /\ sched.active_jobs =
       Cardinality({k \in DOMAIN hist : hist[k].actdec = 0})
         + (IF MidSpawn THEN 1 ELSE 0)
  /\ (Stuck /\ cl.pc = "top" /\ \A k \in DOMAIN hist : hist[k].submitted)
       => sched.active_jobs = 0


\* C36: in the chain built by one job_chain / job_chain_arr call, whenever a
\* worker has dequeued a handle that its predecessor's worker enqueued (any
\* handle but the first), the handle's unfinished counter is exactly 1, and
\* the worker's next step runs it: the `unfinished == 1` test never discards
\* a continuation.
C36_ContinuationRuns ==
  /\ [](prog = "chain" =>
          \A w \in Workers :
            (wk[w].pc \in {"assert", "check"} /\ wk[w].job.sid > 1) =>
              cells[wk[w].job.cell].unfinished = 1)
  /\ [][prog = "chain" =>
          \A w \in Workers :
            (wk[w].pc = "check" /\ wk[w].job.sid > 1 /\ wk'[w] # wk[w]) =>
              wk'[w].pc = "running"]_vars

\* the last handle of the chain, enqueued by its predecessor, is running
\* after every handle before it has returned
C36_Witness ==
  /\ prog = "chain"
  /\ \E w \in Workers : wk[w].pc = "running" /\ wk[w].job.sid = NChain
  /\ \A k \in 1 .. NChain - 1 : hist[k].returned = 1

(***************************************************************************)
(* Claims about the region arena.                                          *)
(***************************************************************************)
\* the calls that returned in the current epoch
ThisEpoch == {h \in hist : h.epoch = arena.current_epoch}

\* the cell of logical index i, and the cells of the arena
CellOf(i) == <<ra_region(i), ra_index(i)>>
ArenaCells == {c \in RCells : c[1] < arena.max_rgs /\ c[2] < arena.rg_capacity}

\* C21: while r_arena_reset has not been called, every r_arena_alloc /
\* r_arena_add call, also among concurrent ones, gets a logical index of its
\* own and the cell at region index / rg_capacity, offset index % rg_capacity:
\* the call returns that cell (it does not fault on the way), and no two calls
\* get the same index or the same cell.
C21_DistinctCells ==
  cl.nreset = 0 =>
    /\ aborted # "segv"
    /\ \A h \in hist : h.cell = CellOf(h.count)
    /\ \A h1, h2 \in hist :
         h1 # h2 => h1.count # h2.count /\ h1.cell # h2.cell

\* C22: when no allocation overlaps an r_arena_reset: an r_arena_alloc after
\* a reset returns a zero-filled cell; the buffer of a region is zeroed at
\* most once per epoch, also with concurrent allocations; and a cell handed
\* out in the current epoch is not zeroed afterwards.
C22_ZeroedOncePerEpoch ==
  /\ [](~cl.overlap =>
          /\ \A h \in hist :
               h.op = "alloc" /\ h.epoch >= 1 /\ h.cell \in ArenaCells => h.zero
          /\ \A r \in RRegions : arena.zeroed[r] <= 1)
  /\ [][~cl.overlap =>
          \A h \in ThisEpoch :
            h.cell \in ArenaCells /\ cells[h.cell] # ZERO =>
              cells'[h.cell] # ZERO]_vars

\* C23: in every interleaving of allocations and resets
\* 1 <= regions_in_use <= max_regions.
C23_RegionsInUseBounded ==
  1 <= arena.rgs_in_use /\ arena.rgs_in_use <= arena.max_rgs

\* every region is in use after allocations that ran together with a reset
C23_Witness ==
  /\ arena.rgs_in_use = arena.max_rgs /\ arena.max_rgs >= 2
  /\ cl.nreset >= 1 /\ cl.overlap
  /\ \E h \in hist : h.cell[1] = arena.max_rgs - 1

\* what a step of r_arena_reset leaves alone: the regions, their stamps and
\* buffers, rgs_in_use, and the allocations under way or returned
ResetKeeps ==
  /\ arena'.rgs_in_use = arena.rgs_in_use
  /\ arena'.handler = arena.handler
  /\ arena'.epoch = arena.epoch
  /\ cells' = cells /\ wk' = wk /\ hist' = hist /\ aborted' = aborted

C25_AbortBeyondMax ==
  /\ [](/\ \A t \in Allocators :
             wk[t].pc \notin {"idle", "ens_load"} =>
               ra_region(wk[t].count) < arena.max_rgs
        /\ \A h \in hist :
             ra_region(h.count) < arena.max_rgs /\ h.cell \in ArenaCells)
  /\ [][\A t \in Allocators :
          wk[t].pc = "ens_load" /\ ra_region(wk[t].count) >= arena.max_rgs =>
            wk'[t] = wk[t]]_vars

\* C26: when the job arena refuses the allocation of job_spawn (the index it
\* took lies in a region >= max_regions), job_spawn returns: its next step
\* does not end the program, puts active_jobs back to the value from before
\* the call, and initialises no handle.
C26_SpawnRefusedReturnsNull ==
  [][(/\ cl.pc = "sp_region"
      /\ RegionOf(cl.count) >= JOB_SCHEDULER_MAX_REGIONS
      /\ (cl' # cl \/ aborted' # aborted))
       => /\ aborted' = aborted
          /\ sched'.active_jobs = SizeSub(sched.active_jobs, 1)
          /\ cells' = cells /\ hist' = hist]_vars

\* the threads inside _ensure_region or behind it that read
\* regions_handler[region] next
UsesRegion ==
  {t \in Allocators : wk[t].pc \in {"ens_epoch", "ens_stamp", "ens_zero", "ret"}}

\* C34: with concurrent r_arena_alloc / r_arena_add calls and no reset,
\* whenever a call uses a region index r < regions_in_use,
\* regions_handler[r] points to an allocated region with an allocated buffer:
\* no call dereferences a missing region.
C34_RegionExists ==
  cl.nreset = 0 =>
    /\ aborted # "segv"
    /\ \A t \in UsesRegion :
         ra_region(wk[t].count) < arena.rgs_in_use =>
           arena.handler[ra_region(wk[t].count)] = "data"

\* the threads that won the compare-exchange for region r and are creating it
Creating(r) ==
  {t \in Allocators : /\ wk[t].pc \in {"new_struct", "new_data", "new_epoch"}
                      /\ ra_region(wk[t].count) = r}

\* C35: each region r >= 1 is created by exactly one thread, the one that
\* wins the compare-exchange when r == regions_in_use; regions_in_use only
\* increases, in steps of exactly 1, so no region below regions_in_use is
\* missing without a thread creating it and none is created twice; a thread
\* that lost the compare-exchange goes on only when regions_in_use > r.
C35_RegionsCreatedInOrder ==
  /\ [](\A r \in RRegions :
          /\ Cardinality(Creating(r)) <= 1
          /\ (r < arena.rgs_in_use /\ arena.handler[r] = "NULL") =>
               Creating(r) # {})
  /\ [][/\ arena'.rgs_in_use # arena.rgs_in_use =>
             /\ arena'.rgs_in_use = arena.rgs_in_use + 1
             /\ \E t \in Allocators :
                  /\ wk[t].pc = "ens_cas" /\ wk'[t].pc = "new_struct"
                  /\ ra_region(wk[t].count) = arena.rgs_in_use
        /\ \A r \in RRegions :
             arena.handler[r] = "data" => arena'.handler[r] = "data"
        /\ \A t \in Allocators :
             wk[t].pc = "ens_wait" /\ wk'[t].pc # "ens_wait" =>
               arena.rgs_in_use > ra_region(wk[t].count)]_vars

(***************************************************************************)
(* Claims about the flat arena.                                            *)
(***************************************************************************)
\* the step is a call of op that returned
Returns(ops) == cl'.n # cl.n /\ cl'.op \in ops

\* every slot but slot k keeps its content
OtherSlotsKept(k) == \A i \in ASlots : i # k => cells'[i] = cells[i]

\* C27: arena_add on a FIXED arena with count == capacity returns 2 and leaves
\* count, capacity and every element unchanged; arena_add on an arena with
\* count < capacity returns 0, stores the value at index count and increases
\* count by exactly 1.
C27_FixedFullRefusesAdd ==
  [][Returns({"add"}) =>
       /\ arena.preference = FIXED /\ arena.count = arena.capacity =>
            cl'.ret = 2 /\ arena' = arena /\ cells' = cells
       /\ arena.count < arena.capacity =>
            /\ cl'.ret = 0
            /\ cells'[arena.count] = hist'[Len(hist')]
            /\ cells'[arena.count] \in AVals
            /\ OtherSlotsKept(arena.count)
            /\ arena' = [arena EXCEPT !.count = arena.count + 1]]_vars

\* a full FIXED arena that holds a value has refused an arena_add
C27_Witness ==
  /\ cl.op = "add" /\ cl.ret = 2
  /\ arena.preference = FIXED /\ arena.count = arena.capacity
  /\ \E i \in ASlots : i < arena.count /\ cells[i] \in AVals

\* C28: in DYNAMIC mode an arena_add on a full arena makes the capacity the
\* integer part of 1.5 * capacity, which is greater than the old capacity, for
\* every capacity >= 1; so count <= capacity after every arena_add.
C28_DynamicGrows ==
  /\ [](arena.preference = DYNAMIC => arena.count <= arena.capacity)
  /\ [][(/\ Returns({"add"}) /\ cl'.ret = 0
         /\ arena.preference = DYNAMIC /\ arena.count = arena.capacity)
          => /\ arena'.capacity = new_cap(arena.capacity)
             /\ arena'.capacity > arena.capacity]_vars

\* C29: arena_alloc takes the next index and returns that slot zero-filled;
\* when the index is >= capacity it resets the arena to index 0 and returns
\* the zero-filled first slot, never NULL; and it resets in this way only when
\* the preference is FIXED.
C29_AllocClaimsZeroedSlot ==
  [][Returns({"alloc", "alloc_reset"}) =>
       /\ cl'.ptr # NOSLOT /\ cells'[cl'.ptr] = ZERO
       /\ OtherSlotsKept(cl'.ptr)
       /\ arena.count < arena.capacity =>
            cl'.ptr = arena.count /\ arena'.count = arena.count + 1
       /\ arena.count >= arena.capacity =>
            cl'.ptr = 0 /\ arena'.count = 0 /\ arena.preference = FIXED]_vars

\* C30: with one thread, after any sequence of calls arena_pop on a non-empty
\* arena returns 1, copies out the element added last and not yet popped and
\* decrements count; on an empty arena it returns 0 and changes nothing; and
\* arena_get(i) returns NULL exactly when i >= count.
C30_PopInvertsAdd ==
  /\ [](\A i \in ASlots : (arena_get(arena, i) = NOSLOT) <=> (i >= arena.count))
  /\ [][Returns({"pop"}) =>
          IF arena.count = 0
          THEN cl'.ret = 0 /\ arena' = arena /\ cells' = cells
          ELSE /\ cl'.ret = 1
               /\ cl'.out = hist[Len(hist)]
               /\ arena' = [arena EXCEPT !.count = arena.count - 1]
               /\ cells' = cells]_vars

\* C39: every arena_alloc that returns slot k leaves count == k + 1, the call
\* that overflowed, reset the arena and returned slot 0 included; so the
\* arena_alloc after it does not return slot 0 again.
C39_AllocLeavesCount ==
  [][Returns({"alloc", "alloc_reset"}) =>
       /\ arena'.count = cl'.ptr + 1
       /\ cl.op = "alloc_reset" => cl'.ptr # 0]_vars

(***************************************************************************)
(* Claims about the wait group.                                            *)
(***************************************************************************)
\* C31: the counter always equals the initial value plus the amounts added
\* minus the number of wg_done calls; wg_wait returns only on a load that
\* finds the counter at 0; and when every work unit is registered before
\* it calls wg_done and all of them call it, a wg_wait that was called
\* returns.
C31_WaitGroupCounts ==
  /\ [](sched.count = hist.initial + hist.added - hist.dones)
  /\ [][(wk.pc = "waiting" /\ wk'.pc = "returned") => sched.count = 0]_vars
  /\ (wk.pc = "waiting" ~> wk.pc = "returned")

\* wg_wait returned after work was added and every unit called wg_done
C31_Witness ==
  /\ wk.pc = "returned"
  /\ hist.added > 0
  /\ hist.dones = hist.initial + hist.added
  /\ hist.dones >= 2

(***************************************************************************)
(* Claims about the fixed stack.                                           *)
(***************************************************************************)
\* C32: a stack_push on a full stack (count == cap) returns -1 and changes
\* nothing; and after any sequence of push, pop and reset, count is
\* between 0 and cap and sp points into the buffer or one past its end.
C32_StackStaysInBuffer ==
  /\ [](/\ aborted # "segv"
        /\ 0 <= arena.count /\ arena.count <= arena.cap
        /\ 0 <= arena.sp /\ arena.sp <= arena.cap)
  /\ [][(arena.count = arena.cap /\ cl'.n # cl.n /\ cl'.op = "push") =>
          /\ cl'.ret = 0 - 1
          /\ arena' = arena
          /\ cells' = cells]_vars

====
